---- MODULE Spec2Model ----
(***************************************************************************)
(* The query-routing and tool-orchestration workflow of the agentic       *)
(* backend: invoke_agent_graph (langgraph_agents.py) with its classifier   *)
(* node detect_service, the agents inquiry_agent and general_agent, the    *)
(* offline model MockLLM, ServiceRouter._detect_service (orchestrator.py)  *)
(* and the tool methods of MCPClient (mcp_client.py).                      *)
(*                                                                         *)
(* Text is modelled two ways.  A query and an LLM "action" are sequences   *)
(* of one-character strings, so that lower(), strip() and the substring    *)
(* test `in` are computed character by character.  Message contents,       *)
(* payloads and exception texts are TLA+ strings built with \o.            *)
(***************************************************************************)
EXTENDS Integers, Sequences, FiniteSets, TLC

VARIABLES
    Config,        \* config.py: the process-wide settings read by get_llm
    _mcp_client,   \* langgraph_agents.py:48, the module global
    pc,            \* per invocation: where invoke_agent_graph stands
    arg,           \* per invocation: the arguments (query, mcp_client)
    state,         \* per invocation: the AgentState dict threaded through the graph
    local,         \* per invocation: the running agent's local variables
    obs,           \* per invocation: history of LLM calls, tool runs, nodes run
    result,        \* per invocation: the dict invoke_agent_graph returned
    router,        \* ServiceRouter._detect_service: its query, LLM reply and result
    http,          \* a tool method of MCPClient: the HTTP reply and what it returns
    agent,         \* InfrastructureAgent.run: the analysis, the AgentState it returns
    route,         \* ServiceRouter.route_request: the request and the response
    docs,          \* DocumentService: self.documents and self.versions
    infra          \* InfrastructureService: self.indices and self.documents

vars ==
    <<Config, _mcp_client, pc, arg, state, local, obs, result, router, http,
      agent, route, docs, infra>>

-----------------------------------------------------------------------------
(* Bounds *)

MaxCalls == 2      \* most tool calls in one LLM reply
MaxLen == 3        \* longest query the classifier specification enumerates
MaxVersions == 3   \* most versions the model gives one document
MaxDocs == 3       \* most documents of the index the search specification draws

-----------------------------------------------------------------------------
(* Values *)

None == "None"          \* Python None
Absent == "<absent>"    \* a key the returned dict does not have

Inv == {"a", "b"}       \* invocations of invoke_agent_graph

\* ServiceType (langgraph_agents.py:72-75)
INQUIRY == "inquiry"
GENERAL == "general"

-----------------------------------------------------------------------------
(* Text as sequences of characters *)

\* str.lower() on one character
LowerChar(c) ==
    CASE c = "A" -> "a"
      [] c = "B" -> "b"
      [] c = "C" -> "c"
      [] c = "D" -> "d"
      [] c = "E" -> "e"
      [] c = "F" -> "f"
      [] c = "G" -> "g"
      [] c = "H" -> "h"
      [] c = "I" -> "i"
      [] c = "J" -> "j"
      [] c = "K" -> "k"
      [] c = "L" -> "l"
      [] c = "M" -> "m"
      [] c = "N" -> "n"
      [] c = "O" -> "o"
      [] c = "P" -> "p"
      [] c = "Q" -> "q"
      [] c = "R" -> "r"
      [] c = "S" -> "s"
      [] c = "T" -> "t"
      [] c = "U" -> "u"
      [] c = "V" -> "v"
      [] c = "W" -> "w"
      [] c = "X" -> "x"
      [] c = "Y" -> "y"
      [] c = "Z" -> "z"
      [] OTHER -> c

\* the query used as it came, lower() forgotten
Lower_Identity(s) == s

\* str.lower()
Lower(s) == [k \in 1..Len(s) |-> LowerChar(s[k])]

\* Python whitespace, as str.strip() sees it
IsSpace(c) == c \in {" ", "\n", "\t"}

RECURSIVE LStrip(_)
LStrip(s) == IF s # <<>> /\ IsSpace(Head(s)) THEN LStrip(Tail(s)) ELSE s

RECURSIVE RStrip(_)
RStrip(s) ==
    IF s # <<>> /\ IsSpace(s[Len(s)]) THEN RStrip(SubSeq(s, 1, Len(s) - 1)) ELSE s

\* str.strip()
Strip(s) == RStrip(LStrip(s))

\* needle in hay, for two strs: hay[p+1 .. p+len(needle)] = needle for some p
StartsAt(hay, needle, p) ==
    /\ p + Len(needle) <= Len(hay)
    /\ \A k \in 1..Len(needle) : hay[p + k] = needle[k]

SubstringIn(needle, hay) == \E p \in 0..Len(hay) : StartsAt(hay, needle, p)

\* the str made of the characters of s
RECURSIVE Str(_)
Str(s) == IF s = <<>> THEN "" ELSE Head(s) \o Str(Tail(s))

\* all sequences over S of length at most n
SeqsUpTo(S, n) == UNION {[1..k -> S] : k \in 0..n}

-----------------------------------------------------------------------------
(* detect_service: the classifier node (langgraph_agents.py:432-453) *)

inquiry_keywords ==
    << <<"p", "a", "y", "m", "e", "n", "t">>,
       <<"t", "r", "a", "n", "s", "a", "c", "t", "i", "o", "n">>,
       <<"p", "m", "t">>,
       <<"t", "x">>,
       <<"i", "b", "a", "n">>,
       <<"s", "t", "a", "t", "u", "s">>,
       <<"r", "e", "j", "e", "c", "t", "e", "d">>,
       <<"c", "o", "m", "p", "l", "e", "t", "e", "d">>,
       <<"p", "e", "n", "d", "i", "n", "g">>,
       <<"s", "e", "p", "a">>,
       <<"i", "n", "s", "t">>,
       <<"t", "r", "a", "n", "s", "f", "e", "r">>,
       <<"a", "m", "o", "u", "n", "t">>,
       <<"f", "i", "n", "d">>,
       <<"s", "e", "a", "r", "c", "h">>,
       <<"l", "i", "s", "t">>,
       <<"g", "e", "t">>,
       <<"s", "h", "o", "w">>,
       <<"l", "o", "o", "k", "u", "p">>,
       <<"i", "n", "q", "u", "i", "r", "y">>,
       <<"c", "h", "e", "c", "k">>,
       <<"s", "t", "a", "t", "s">>,
       <<"s", "t", "a", "t", "i", "s", "t", "i", "c", "s">> >>

\* any(keyword in query_lower for keyword in inquiry_keywords)
AnyKeywordIn(query_lower) ==
    \E n \in 1..Len(inquiry_keywords) : SubstringIn(inquiry_keywords[n], query_lower)

\* the service_type detect_service stores for a query
DetectedService(query) ==
    IF AnyKeywordIn(Lower(query)) THEN INQUIRY ELSE GENERAL

\* a classifier node that leaves service_type as it found it
detect_service_Unset(s) == s

\* a classifier that hands back a fresh state for the query
detect_service_Fresh(s) ==
    [s EXCEPT !.service_type = DetectedService(s.query), !.messages = <<>>,
              !.tool_calls = <<>>, !.tool_results = <<>>, !.response = "",
              !.error = None]

\* detect_service(state): the state it returns
detect_service(s) == [s EXCEPT !.service_type = DetectedService(s.query)]

\* route_to_agent (langgraph_agents.py:579-584)
route_to_agent(s) ==
    IF s.service_type = INQUIRY THEN "inquiry_agent" ELSE "general_agent"

-----------------------------------------------------------------------------
(* Configuration and the LLM *)

\* the settings a process may be started with (config.py:23-26)
Configs ==
    { [LLM_PROVIDER |-> "vertexai", GOOGLE_CLOUD_PROJECT |-> "omaap-project"],
      [LLM_PROVIDER |-> "vertexai", GOOGLE_CLOUD_PROJECT |-> ""],
      [LLM_PROVIDER |-> "watsonx", GOOGLE_CLOUD_PROJECT |-> ""],
      [LLM_PROVIDER |-> "mock", GOOGLE_CLOUD_PROJECT |-> ""] }

\* the settings of a process started without any of the two variables
DefaultConfig == [LLM_PROVIDER |-> "vertexai", GOOGLE_CLOUD_PROJECT |-> ""]

Returned(v) == [kind |-> "return", value |-> v]
Raised(msg) == [kind |-> "raise", value |-> msg]

\* get_llm(): a chat model, or the exception it raises.  The google,
\* anthropic and openai branches repeat the vertexai one with another key.
get_llm(cfg) ==
    IF cfg.LLM_PROVIDER = "vertexai"
    THEN IF cfg.GOOGLE_CLOUD_PROJECT = ""
         THEN Raised("GOOGLE_CLOUD_PROJECT environment variable not set")
         ELSE Returned("ChatVertexAI")
    ELSE IF cfg.LLM_PROVIDER = "mock"
    THEN Returned("MockLLM")
    ELSE Raised("Unknown LLM provider: " \o cfg.LLM_PROVIDER)

\* what a tool call proposed by the LLM may hold: a registered tool with
\* and without its required argument, a tool without one, an unknown name
\* (the id of a call is a str, as ToolMessage requires of tool_call_id)
CallIds == {"call_1", "call_2"}
ProposedCalls ==
    { [name |-> "list_payments", args |-> "{}"],
      [name |-> "get_payment", args |-> "{}"],
      [name |-> "get_payment", args |-> "{\"pmt_id\": \"p-1\"}"],
      [name |-> "refund_payment", args |-> "{}"] }
ToolCalls == {[id |-> id, name |-> c.name, args |-> c.args] : id \in CallIds, c \in ProposedCalls}

\* the text of an LLM reply, and the text of an exception
Contents == {"", "Here is what I found."}
ErrorTexts == {"", "503 service unavailable"}

\* an AIMessage as the provider may return it
AIMessage(content, tool_calls) ==
    [type |-> "ai", content |-> content, tool_calls |-> tool_calls, tool_call_id |-> None]
SystemMessage(content) ==
    [type |-> "system", content |-> content, tool_calls |-> <<>>, tool_call_id |-> None]
HumanMessage(content) ==
    [type |-> "human", content |-> content, tool_calls |-> <<>>, tool_call_id |-> None]
ToolMessage(content, tool_call_id) ==
    [type |-> "tool", content |-> content, tool_calls |-> <<>>, tool_call_id |-> tool_call_id]

\* llm.invoke(messages) of a real provider: any reply with at most n tool
\* calls, or an exception
LLMOutcomes(n) ==
    {Returned(AIMessage(c, tcs)) : c \in Contents, tcs \in SeqsUpTo(ToolCalls, n)}
        \cup {Raised(e) : e \in ErrorTexts}

\* The first reply's tool calls are executed one by one.  Of a later reply
\* the code reads only .content, so one proposed call stands for any number.
Phase1Outcomes == LLMOutcomes(MaxCalls)
Phase2Outcomes == LLMOutcomes(1)

\* general_agent binds no tools to its LLM, which so proposes none
UnboundOutcomes == LLMOutcomes(0)

-----------------------------------------------------------------------------
(* The inquiry tools (langgraph_agents.py:251-425) *)

INQUIRY_TOOLS ==
    << "list_payments", "get_payment", "search_payments",
       "get_payment_with_transactions", "list_transactions", "get_transaction",
       "search_transactions", "get_payment_stats" >>

\* next((t for t in INQUIRY_TOOLS if t.name == tool_name), None)
tool_fn(tool_name) ==
    IF \E n \in 1..Len(INQUIRY_TOOLS) : INQUIRY_TOOLS[n] = tool_name
    THEN tool_name
    ELSE None

\* json.dumps({"error": text})
json_dumps_error(text) == "{\"error\": \"" \o text \o "\"}"
ErrorPayloads ==
    {json_dumps_error(t) : t \in {"Payment client not initialized",
                                  "validation error", "connection refused"}}

\* the tool clients a caller may pass, and what their server answers
Clients == {"client_A", "client_B"}
PayloadKey(tool_name) ==
    IF tool_name \in {"list_payments", "search_payments"} THEN "payments"
    ELSE IF tool_name \in {"list_transactions", "search_transactions"} THEN "transactions"
    ELSE tool_name
ClientPayload(client, tool_name) ==
    "{\"" \o PayloadKey(tool_name) \o "\": [], \"source\": \"" \o client \o "\"}"

\* the arguments pass the tool's schema: get_payment requires pmt_id
ArgsAccepted(tool_name, args) ==
    tool_name \in {"get_payment", "get_payment_with_transactions"} => args # "{}"

\* json.dumps(await _mcp_client.<method>(...)): the client's payload, or the
\* error payload the client hands back when its server cannot be reached
ClientCall(client, tool_name) ==
    {ClientPayload(client, tool_name), json_dumps_error("connection refused")}

\* await tool.ainvoke(args) with the global client as it is now: the str
\* the tool returns, or the exception it raises
ToolOutcomes(tool_name, args, client) ==
    IF ~ArgsAccepted(tool_name, args)
    THEN {Raised("validation error")}
    ELSE IF client = None
    THEN {Returned(json_dumps_error("Payment client not initialized"))}
    ELSE {Returned(v) : v \in ClientCall(client, tool_name)}

-----------------------------------------------------------------------------
(* MockLLM (langgraph_agents.py:153-244) *)

\* line 213: the words that make MockLLM.invoke request a tool
MOCK_TOOL_WORDS ==
    << <<"p", "a", "y", "m", "e", "n", "t">>,
       <<"t", "r", "a", "n", "s", "a", "c", "t", "i", "o", "n">>,
       <<"l", "i", "s", "t">>,
       <<"s", "h", "o", "w">>,
       <<"g", "e", "t">>,
       <<"s", "e", "a", "r", "c", "h">>,
       <<"f", "i", "n", "d">>,
       <<"s", "t", "a", "t", "s">> >>

\* line 182: the words that make MockLLM._generate offer its help
MOCK_HELP_WORDS ==
    << <<"p", "a", "y", "m", "e", "n", "t">>,
       <<"t", "r", "a", "n", "s", "a", "c", "t", "i", "o", "n">>,
       <<"i", "b", "a", "n">>,
       <<"s", "t", "a", "t", "u", "s">>,
       <<"l", "i", "s", "t">>,
       <<"s", "h", "o", "w">>,
       <<"g", "e", "t">> >>

\* any(word in text for word in words)
AnyWordIn(words, text) == \E n \in 1..Len(words) : SubstringIn(words[n], text)

\* any(isinstance(m, ToolMessage) for m in messages)
has_tool_results(messages) == \E n \in 1..Len(messages) : messages[n].type = "tool"

\* next((m.content for m in messages if isinstance(m, ToolMessage)), "")
FirstToolContent(messages) ==
    IF has_tool_results(messages)
    THEN messages[CHOOSE n \in 1..Len(messages) :
                    /\ messages[n].type = "tool"
                    /\ \A m \in 1..(n - 1) : messages[m].type # "tool"].content
    ELSE ""

\* json.loads(tool_data) is a dict with the key: of the strs a tool returns,
\* the clients' payloads for the tools that answer under that key
JsonHasKey(tool_data, key) ==
    \E c \in Clients, n \in 1..Len(INQUIRY_TOOLS) :
        /\ PayloadKey(INQUIRY_TOOLS[n]) = key
        /\ tool_data = ClientPayload(c, INQUIRY_TOOLS[n])

\* lines 169-181: the answer to a history with a tool result (the lists of
\* the modelled payloads are empty, so count is 0)
MockSummary(tool_data) ==
    IF JsonHasKey(tool_data, "payments")
    THEN "Found 0 payments in the system. Here are the details:\n\n" \o tool_data
    ELSE IF JsonHasKey(tool_data, "transactions")
    THEN "Found 0 transactions. Here are the details:\n\n" \o tool_data
    ELSE "Here are the results:\n\n" \o tool_data

\* user_msg[:100]
First100(user_msg) ==
    IF Len(user_msg) <= 100 THEN user_msg ELSE SubSeq(user_msg, 1, 100)

\* MockLLM._generate: the text of the reply.  user_msg is the content of
\* the HumanMessage, which both agents build from state["query"].
Mock_generate(messages, user_msg) ==
    IF has_tool_results(messages)
    THEN MockSummary(FirstToolContent(messages))
    ELSE IF AnyWordIn(MOCK_HELP_WORDS, Lower(user_msg))
    THEN "I'll help you look up that payment information."
    ELSE "Mock response to: " \o Str(First100(user_msg)) \o "..."

\* a choice that looks for 'search' and 'find' before 'transaction'
MockToolChoice_SearchFirst(user_lower) ==
    IF \/ SubstringIn(<<"s", "t", "a", "t", "s">>, user_lower)
       \/ SubstringIn(<<"s", "t", "a", "t", "i", "s", "t", "i", "c">>, user_lower)
    THEN [name |-> "get_payment_stats", args |-> "{}"]
    ELSE IF \/ SubstringIn(<<"s", "e", "a", "r", "c", "h">>, user_lower)
            \/ SubstringIn(<<"f", "i", "n", "d">>, user_lower)
    THEN IF SubstringIn(<<"t", "r", "a", "n", "s", "a", "c", "t", "i", "o", "n">>, user_lower)
         THEN [name |-> "search_transactions", args |-> "{}"]
         ELSE [name |-> "search_payments", args |-> "{}"]
    ELSE IF SubstringIn(<<"t", "r", "a", "n", "s", "a", "c", "t", "i", "o", "n">>, user_lower)
    THEN [name |-> "list_transactions", args |-> "{\"limit\": 10}"]
    ELSE [name |-> "list_payments", args |-> "{\"limit\": 10}"]

\* lines 215-230: the tool MockLLM.invoke asks for
MockToolChoice(user_lower) ==
    IF \/ SubstringIn(<<"s", "t", "a", "t", "s">>, user_lower)
       \/ SubstringIn(<<"s", "t", "a", "t", "i", "s", "t", "i", "c">>, user_lower)
    THEN [name |-> "get_payment_stats", args |-> "{}"]
    ELSE IF SubstringIn(<<"t", "r", "a", "n", "s", "a", "c", "t", "i", "o", "n">>, user_lower)
    THEN [name |-> "list_transactions", args |-> "{\"limit\": 10}"]
    ELSE IF \/ SubstringIn(<<"s", "e", "a", "r", "c", "h">>, user_lower)
            \/ SubstringIn(<<"f", "i", "n", "d">>, user_lower)
    THEN IF SubstringIn(<<"t", "r", "a", "n", "s", "a", "c", "t", "i", "o", "n">>, user_lower)
         THEN [name |-> "search_transactions", args |-> "{}"]
         ELSE [name |-> "search_payments", args |-> "{}"]
    ELSE [name |-> "list_payments", args |-> "{\"limit\": 10}"]

\* a MockLLM that does not look for tool results in the history
MockLLM_invoke_OnePhase(messages, user_msg, tools) ==
    IF tools # <<>> /\ AnyWordIn(MOCK_TOOL_WORDS, Lower(user_msg))
    THEN AIMessage("", <<[id |-> "mock_tool_call_1",
                         name |-> MockToolChoice(Lower(user_msg)).name,
                         args |-> MockToolChoice(Lower(user_msg)).args]>>)
    ELSE AIMessage(Mock_generate(messages, user_msg), <<>>)

\* MockLLM.invoke(messages) with self.tools = tools
MockLLM_invoke(messages, user_msg, tools) ==
    IF has_tool_results(messages)
    THEN AIMessage(Mock_generate(messages, user_msg), <<>>)
    ELSE IF tools # <<>> /\ AnyWordIn(MOCK_TOOL_WORDS, Lower(user_msg))
    THEN AIMessage("", <<[id |-> "mock_tool_call_1",
                         name |-> MockToolChoice(Lower(user_msg)).name,
                         args |-> MockToolChoice(Lower(user_msg)).args]>>)
    ELSE AIMessage(Mock_generate(messages, user_msg), <<>>)

\* llm.invoke(messages) of the model get_llm returned: MockLLM computes its
\* reply, a real provider ends with any of `real`
llm_invoke(cfg, messages, user_msg, tools, real) ==
    IF get_llm(cfg) = Returned("MockLLM")
    THEN {Returned(MockLLM_invoke(messages, user_msg, tools))}
    ELSE real

-----------------------------------------------------------------------------
(* invoke_agent_graph and the graph it runs (langgraph_agents.py:460-683) *)

INQUIRY_PROMPT == "You are a Payment Inquiry Assistant for the OMaaP system."
GENERAL_PROMPT == "You are a helpful assistant for the OMaaP system."

\* the queries the workflow specification sends
Queries == { <<"T", "X", " ", "7">>, <<"h", "i">> }

NoArgs == [query |-> <<>>, mcp_client |-> None]
NoState ==
    [query |-> <<>>, messages |-> <<>>, service_type |-> "", tool_calls |-> <<>>,
     tool_results |-> <<>>, response |-> "", error |-> None]
NoLocal ==
    [messages |-> <<>>, response |-> AIMessage("", <<>>), tool_results |-> <<>>,
     k |-> 0, exc |-> None]
NoObs ==
    [llm_calls |-> 0, tools_run |-> <<>>, tools_raised |-> {}, nodes |-> <<>>,
     reply2_tool_calls |-> FALSE, reply2_content |-> "", llm_raised |-> 0,
     clients_used |-> {}]
NoResult ==
    [response |-> Absent, service_type |-> Absent, tool_results |-> <<>>,
     has_tool_results |-> FALSE, query |-> <<>>, llm_provider |-> Absent,
     success |-> FALSE, error |-> Absent, returned |-> FALSE]

\* initial_state (langgraph_agents.py:648-656)
initial_state(query) == [NoState EXCEPT !.query = query]

\* The call invoke_agent_graph(query, mcp_client): set_mcp_client when a
\* client was passed, build the initial state, enter the graph at START.
Invoke(i) ==
    /\ pc[i] = "idle"
    /\ \E query \in Queries, mcp_client \in Clients \cup {None} :
        /\ arg' = [arg EXCEPT ![i] = [query |-> query, mcp_client |-> mcp_client]]
        /\ _mcp_client' = IF mcp_client # None THEN mcp_client ELSE _mcp_client
        /\ state' = [state EXCEPT ![i] = initial_state(query)]
    /\ pc' = [pc EXCEPT ![i] = "orchestrator"]
    /\ UNCHANGED <<Config, local, obs, result, router, http,
                   agent, route, docs, infra>>

\* The node "orchestrator" (detect_service) and the conditional edge after it.
Orchestrator(i) ==
    /\ pc[i] = "orchestrator"
    /\ state' = [state EXCEPT ![i] = detect_service(@)]
    /\ pc' = [pc EXCEPT ![i] = route_to_agent(state'[i])]
    /\ obs' = [obs EXCEPT ![i].nodes = Append(@, "orchestrator")]
    /\ UNCHANGED <<Config, _mcp_client, arg, local, result, router, http,
                   agent, route, docs, infra>>

\* An exception leaves the running node and graph.ainvoke.
GraphRaises(i, text) ==
    /\ pc' = [pc EXCEPT ![i] = "graph_raised"]
    /\ local' = [local EXCEPT ![i].exc = text]

\* inquiry_agent up to its first await: get_llm, bind_tools, the two messages.
InquiryAgentEntry(i) ==
    /\ pc[i] = "inquiry_agent"
    /\ obs' = [obs EXCEPT ![i].nodes = Append(@, "inquiry_agent")]
    /\ IF get_llm(Config).kind = "raise"
       THEN GraphRaises(i, get_llm(Config).value)
       ELSE /\ local' = [local EXCEPT ![i].messages =
                            << SystemMessage(INQUIRY_PROMPT),
                               HumanMessage(Str(state[i].query)) >>]
            /\ pc' = [pc EXCEPT ![i] = "inquiry_llm1"]
    /\ UNCHANGED <<Config, _mcp_client, arg, state, result, router, http,
                   agent, route, docs, infra>>

\* a loop body that records the result but hands no ToolMessage to the LLM
ToolReturned_Unsent(l, tool_call, value) ==
    [l EXCEPT !.tool_results = Append(@, [tool |-> tool_call.name,
                                          args |-> tool_call.args,
                                          result |-> value])]

\* a loop body that files the result under the name of the tool
ToolReturned_NameAsId(l, tool_call, value) ==
    [l EXCEPT !.tool_results = Append(@, [tool |-> tool_call.name,
                                          args |-> tool_call.args,
                                          result |-> value]),
              !.messages = Append(@, ToolMessage(value, tool_call.name))]

\* lines 516-524: the tool returned `value`
ToolReturned(l, tool_call, value) ==
    [l EXCEPT !.tool_results = Append(@, [tool |-> tool_call.name,
                                          args |-> tool_call.args,
                                          result |-> value]),
              !.messages = Append(@, ToolMessage(value, tool_call.id))]

\* the loop body without try/except: the exception leaves the agent
ToolRaised_Uncaught(l, tool_call, text) == [l EXCEPT !.exc = text]

\* lines 525-530: the tool raised an exception whose str is `text`
ToolRaised(l, tool_call, text) ==
    [l EXCEPT !.messages = Append(@, ToolMessage(json_dumps_error(text), tool_call.id))]

\* lines 512-530: one iteration of the loop, the tool ending with `outcome`
\* when its name is registered
ExecuteToolCall(l, tool_call, outcome) ==
    IF tool_fn(tool_call.name) = None
    THEN l
    ELSE IF outcome.kind = "return"
         THEN ToolReturned(l, tool_call, outcome.value)
         ELSE ToolRaised(l, tool_call, outcome.value)

\* lines 498, 537: the reply takes the tool branch
RequestsTools(response) == response.tool_calls # <<>>

\* An agent without the else branch of line 537: a first reply without tool
\* calls runs the (empty) loop and the LLM is asked a second time.
InquiryPhase1_AlwaysPhase2(i) ==
    /\ pc[i] = "inquiry_llm1"
    /\ \E out \in llm_invoke(Config, local[i].messages, state[i].query,
                             INQUIRY_TOOLS, Phase1Outcomes) :
        IF out.kind = "raise"
        THEN /\ GraphRaises(i, out.value)
             /\ obs' = [obs EXCEPT ![i].llm_calls = @ + 1, ![i].llm_raised = 1]
        ELSE /\ obs' = [obs EXCEPT ![i].llm_calls = @ + 1]
             /\ local' = [local EXCEPT ![i].response = out.value,
                                       ![i].messages = Append(@, out.value),
                                       ![i].tool_results = <<>>,
                                       ![i].k = 1]
             /\ pc' = [pc EXCEPT ![i] = IF RequestsTools(out.value)
                                        THEN "inquiry_tools" ELSE "inquiry_llm2"]
    /\ UNCHANGED <<Config, _mcp_client, arg, state, result, router, http,
                   agent, route, docs, infra>>

\* The first LLM call returns or raises (lines 495-502 and 537-540).
InquiryPhase1(i) ==
    /\ pc[i] = "inquiry_llm1"
    /\ \E out \in llm_invoke(Config, local[i].messages, state[i].query,
                             INQUIRY_TOOLS, Phase1Outcomes) :
        IF out.kind = "raise"
        THEN /\ GraphRaises(i, out.value)
             /\ obs' = [obs EXCEPT ![i].llm_calls = @ + 1, ![i].llm_raised = 1]
             /\ UNCHANGED state
        ELSE /\ obs' = [obs EXCEPT ![i].llm_calls = @ + 1]
             /\ IF RequestsTools(out.value)
                THEN /\ local' = [local EXCEPT ![i].response = out.value,
                                               ![i].messages = Append(@, out.value),
                                               ![i].tool_results = <<>>,
                                               ![i].k = 1]
                     /\ pc' = [pc EXCEPT ![i] = "inquiry_tools"]
                     /\ UNCHANGED state
                ELSE /\ local' = [local EXCEPT ![i].response = out.value]
                     /\ state' = [state EXCEPT ![i].response = out.value.content,
                                               ![i].messages = local[i].messages]
                     /\ pc' = [pc EXCEPT ![i] = "graph_end"]
    /\ UNCHANGED <<Config, _mcp_client, arg, result, router, http,
                   agent, route, docs, infra>>

\* One iteration of `for tool_call in response.tool_calls` (lines 505-530);
\* after the last one, state["tool_results"] = tool_results (line 532).
\* The body of a tool reads the global _mcp_client when it runs.
InquiryExecTool(i) ==
    /\ pc[i] = "inquiry_tools"
    /\ LET k == local[i].k
           calls == local[i].response.tool_calls
           tool_call == calls[k]
           found == tool_fn(tool_call.name) # None
       IN  \E out \in IF found
                      THEN ToolOutcomes(tool_call.name, tool_call.args, _mcp_client)
                      ELSE {Returned(None)} :
            LET l == ExecuteToolCall(local[i], tool_call, out)
            IN  /\ local' = [local EXCEPT ![i] = [l EXCEPT !.k = k + 1]]
                /\ obs' = [obs EXCEPT
                     ![i].tools_run = IF found THEN Append(@, k) ELSE @,
                     ![i].tools_raised = IF found /\ out.kind = "raise"
                                         THEN @ \cup {k} ELSE @,
                     ![i].clients_used =
                         IF found /\ ArgsAccepted(tool_call.name, tool_call.args)
                         THEN @ \cup {_mcp_client} ELSE @]
                /\ IF l.exc # None
                   THEN \* an exception nothing caught leaves the node
                        /\ pc' = [pc EXCEPT ![i] = "graph_raised"]
                        /\ UNCHANGED state
                   ELSE IF k = Len(calls)
                   THEN /\ state' = [state EXCEPT ![i].tool_results = l.tool_results]
                        /\ pc' = [pc EXCEPT ![i] = "inquiry_llm2"]
                   ELSE UNCHANGED <<state, pc>>
    /\ UNCHANGED <<Config, _mcp_client, arg, result, router, http,
                   agent, route, docs, infra>>

\* An agent that loops: a second reply that requests tools is executed and
\* the LLM asked again.
InquiryPhase2_Loop(i) ==
    /\ pc[i] = "inquiry_llm2"
    /\ \E out \in llm_invoke(Config, local[i].messages, state[i].query,
                             INQUIRY_TOOLS, Phase2Outcomes) :
        IF out.kind = "raise"
        THEN /\ GraphRaises(i, out.value)
             /\ obs' = [obs EXCEPT ![i].llm_calls = @ + 1, ![i].llm_raised = 2]
             /\ UNCHANGED state
        ELSE /\ obs' = [obs EXCEPT ![i].llm_calls = @ + 1,
                                   ![i].reply2_tool_calls = RequestsTools(out.value),
                                   ![i].reply2_content = out.value.content]
             /\ IF RequestsTools(out.value)
                THEN /\ local' = [local EXCEPT ![i].response = out.value,
                                               ![i].messages = Append(@, out.value),
                                               ![i].k = 1]
                     /\ pc' = [pc EXCEPT ![i] = "inquiry_tools"]
                     /\ UNCHANGED state
                ELSE /\ state' = [state EXCEPT ![i].response = out.value.content,
                                               ![i].messages = local[i].messages]
                     /\ pc' = [pc EXCEPT ![i] = "graph_end"]
                     /\ UNCHANGED local
    /\ UNCHANGED <<Config, _mcp_client, arg, result, router, http,
                   agent, route, docs, infra>>

\* The second LLM call returns or raises (lines 535-536 and 540).
InquiryPhase2(i) ==
    /\ pc[i] = "inquiry_llm2"
    /\ \E out \in llm_invoke(Config, local[i].messages, state[i].query,
                             INQUIRY_TOOLS, Phase2Outcomes) :
        IF out.kind = "raise"
        THEN /\ GraphRaises(i, out.value)
             /\ obs' = [obs EXCEPT ![i].llm_calls = @ + 1, ![i].llm_raised = 2]
             /\ UNCHANGED state
        ELSE /\ obs' = [obs EXCEPT ![i].llm_calls = @ + 1,
                                   ![i].reply2_tool_calls = RequestsTools(out.value),
                                   ![i].reply2_content = out.value.content]
             /\ state' = [state EXCEPT ![i].response = out.value.content,
                                       ![i].messages = local[i].messages]
             /\ pc' = [pc EXCEPT ![i] = "graph_end"]
             /\ UNCHANGED local
    /\ UNCHANGED <<Config, _mcp_client, arg, result, router, http,
                   agent, route, docs, infra>>

\* general_agent up to its await: get_llm and the two messages (lines 554-566).
GeneralAgentEntry(i) ==
    /\ pc[i] = "general_agent"
    /\ obs' = [obs EXCEPT ![i].nodes = Append(@, "general_agent")]
    /\ IF get_llm(Config).kind = "raise"
       THEN GraphRaises(i, get_llm(Config).value)
       ELSE /\ local' = [local EXCEPT ![i].messages =
                            << SystemMessage(GENERAL_PROMPT),
                               HumanMessage(Str(state[i].query)) >>]
            /\ pc' = [pc EXCEPT ![i] = "general_llm"]
    /\ UNCHANGED <<Config, _mcp_client, arg, state, result, router, http,
                   agent, route, docs, infra>>

\* general_agent's only LLM call returns or raises (lines 568-570).
GeneralLLM(i) ==
    /\ pc[i] = "general_llm"
    /\ \E out \in llm_invoke(Config, local[i].messages, state[i].query,
                             <<>>, UnboundOutcomes) :
        IF out.kind = "raise"
        THEN /\ GraphRaises(i, out.value)
             /\ obs' = [obs EXCEPT ![i].llm_calls = @ + 1, ![i].llm_raised = 1]
             /\ UNCHANGED state
        ELSE /\ obs' = [obs EXCEPT ![i].llm_calls = @ + 1]
             /\ local' = [local EXCEPT ![i].response = out.value]
             /\ state' = [state EXCEPT ![i].response = out.value.content,
                                       ![i].messages = local[i].messages]
             /\ pc' = [pc EXCEPT ![i] = "graph_end"]
    /\ UNCHANGED <<Config, _mcp_client, arg, result, router, http,
                   agent, route, docs, infra>>

\* lines 665-672: the dict returned when graph.ainvoke returned final_state
SuccessResult(final_state, query, cfg) ==
    [response |-> final_state.response, service_type |-> final_state.service_type,
     tool_results |-> final_state.tool_results, has_tool_results |-> TRUE,
     query |-> query, llm_provider |-> cfg.LLM_PROVIDER,
     success |-> TRUE, error |-> Absent, returned |-> TRUE]

\* invoke_agent_graph without its except clause: nothing is returned
ErrorResult_Reraise(text, query, cfg) == NoResult

\* lines 674-683: the dict returned when graph.ainvoke raised e, str(e) = text
ErrorResult(text, query, cfg) ==
    [response |-> "I encountered an error processing your request: " \o text,
     service_type |-> "error",
     tool_results |-> <<>>, has_tool_results |-> FALSE,
     query |-> query, llm_provider |-> cfg.LLM_PROVIDER,
     success |-> FALSE, error |-> text, returned |-> TRUE]

\* invoke_agent_graph returns (lines 658-683).
ReturnResult(i) ==
    /\ pc[i] \in {"graph_end", "graph_raised"}
    /\ result' = [result EXCEPT ![i] =
            IF pc[i] = "graph_end"
            THEN SuccessResult(state[i], arg[i].query, Config)
            ELSE ErrorResult(local[i].exc, arg[i].query, Config)]
    /\ pc' = [pc EXCEPT ![i] = "done"]
    /\ UNCHANGED <<Config, _mcp_client, arg, state, local, obs, router, http,
                   agent, route, docs, infra>>

\* The caller has its result; the next request may come.  Nothing of the
\* finished invocation is kept but the module global.
NextRequest(i) ==
    /\ pc[i] = "done"
    /\ pc' = [pc EXCEPT ![i] = "idle"]
    /\ arg' = [arg EXCEPT ![i] = NoArgs]
    /\ state' = [state EXCEPT ![i] = NoState]
    /\ local' = [local EXCEPT ![i] = NoLocal]
    /\ obs' = [obs EXCEPT ![i] = NoObs]
    /\ result' = [result EXCEPT ![i] = NoResult]
    /\ UNCHANGED <<Config, _mcp_client, router, http,
                   agent, route, docs, infra>>

Step(i) ==
    \/ Invoke(i)
    \/ Orchestrator(i)
    \/ InquiryAgentEntry(i)
    \/ InquiryPhase1(i)
    \/ InquiryExecTool(i)
    \/ InquiryPhase2(i)
    \/ GeneralAgentEntry(i)
    \/ GeneralLLM(i)
    \/ ReturnResult(i)
    \/ NextRequest(i)

-----------------------------------------------------------------------------
(* DocumentService (mock-api app/services/document_service.py,
   specification SpecDocs) *)

\* the uuids of the seven documents _populate_mock_data creates, and the
\* uuids upload_document may draw afterwards
MOCK_DOC_IDS ==
    {"mock-1", "mock-2", "mock-3", "mock-4", "mock-5", "mock-6", "mock-7"}
FRESH_DOC_IDS == {"doc-1", "doc-2"}

\* the doc_id arguments of the calls: a populated document, the uploaded
\* ones, and an id the store does not know
DocArgs == {"mock-1", "nope"} \cup FRESH_DOC_IDS
Filenames == {"document.txt", "document_v2.txt"}

\* Document(..., version=1), is_active defaulting to True
NewDocument(filename) ==
    [filename |-> filename, version |-> 1, is_active |-> TRUE]

\* lines 86-107: self.documents and self.versions after __init__
populated_documents == [d \in MOCK_DOC_IDS |-> NewDocument("document.txt")]
populated_versions == [d \in MOCK_DOC_IDS |-> <<1>>]

\* what the last call returned: the version_number of a DocumentVersion or
\* the version of a Document (found), or None / False (not found)
NoReturn == [op |-> "", doc |-> "", found |-> FALSE, number |-> 0]

\* a function with one more, or one changed, entry
Put(f, k, v) == [x \in DOMAIN f \cup {k} |-> IF x = k THEN v ELSE f[x]]

\* upload_document (lines 109-144)
upload_document ==
    \E d \in FRESH_DOC_IDS \ DOMAIN docs.documents, filename \in Filenames :
        /\ docs' = [documents |-> Put(docs.documents, d, NewDocument(filename)),
                    versions |-> Put(docs.versions, d, <<1>>),
                    ret |-> [op |-> "upload_document", doc |-> d,
                             found |-> TRUE, number |-> 1]]
        /\ UNCHANGED <<Config, _mcp_client, pc, arg, state, local, obs, result,
                       router, http, agent, route, infra>>

\* update_document (lines 183-203)
update_document ==
    \E d \in DocArgs, filename \in Filenames :
        /\ docs' =
            IF d \notin DOMAIN docs.documents
            THEN [docs EXCEPT !.ret = [op |-> "update_document", doc |-> d,
                                       found |-> FALSE, number |-> 0]]
            ELSE [docs EXCEPT
                    !.documents[d].filename = filename,
                    !.ret = [op |-> "update_document", doc |-> d,
                             found |-> TRUE,
                             number |-> docs.documents[d].version]]
        /\ UNCHANGED <<Config, _mcp_client, pc, arg, state, local, obs, result,
                       router, http, agent, route, infra>>

\* delete_document (lines 205-213): the document stays in the table
delete_document ==
    \E d \in DocArgs :
        /\ docs' =
            IF d \notin DOMAIN docs.documents
            THEN [docs EXCEPT !.ret = [op |-> "delete_document", doc |-> d,
                                       found |-> FALSE, number |-> 0]]
            ELSE [docs EXCEPT
                    !.documents[d].is_active = FALSE,
                    !.ret = [op |-> "delete_document", doc |-> d,
                             found |-> TRUE,
                             number |-> docs.documents[d].version]]
        /\ UNCHANGED <<Config, _mcp_client, pc, arg, state, local, obs, result,
                       router, http, agent, route, infra>>

\* a numbering that repeats the number of the latest version
new_version_number_Stale(doc_versions) == Len(doc_versions)

\* line 230
new_version_number(doc_versions) == Len(doc_versions) + 1

\* create_version (lines 215-253)
create_version ==
    \E d \in DocArgs, new_filename \in Filenames :
        /\ d \in DOMAIN docs.documents => Len(docs.versions[d]) < MaxVersions
        /\ docs' =
            IF d \notin DOMAIN docs.documents
            THEN [docs EXCEPT !.ret = [op |-> "create_version", doc |-> d,
                                       found |-> FALSE, number |-> 0]]
            ELSE LET n == new_version_number(docs.versions[d])
                 IN  [docs EXCEPT
                        !.versions[d] = Append(@, n),
                        !.documents[d].version = n,
                        !.documents[d].filename = new_filename,
                        !.ret = [op |-> "create_version", doc |-> d,
                                 found |-> TRUE, number |-> n]]
        /\ UNCHANGED <<Config, _mcp_client, pc, arg, state, local, obs, result,
                       router, http, agent, route, infra>>

-----------------------------------------------------------------------------
(* InfrastructureService (mock-api app/services/infrastructure_service.py,
   specification SpecInfra) *)

\* the uuids of the three indices and of the nine documents
\* _populate_mock_data creates, and the uuids drawn afterwards
MOCK_INDEX_IDS == {"idx-products", "idx-users", "idx-orders"}
MockIndexDocs(index_id) ==
    CASE index_id = "idx-products" -> <<"prod-1", "prod-2", "prod-3">>
      [] index_id = "idx-users" -> <<"user-1", "user-2", "user-3">>
      [] index_id = "idx-orders" -> <<"order-1", "order-2", "order-3">>
FRESH_INDEX_IDS == {"idx-1"}
FRESH_INDEXED_IDS == {"new-1", "new-2"}

\* the arguments of the calls: a populated and a created index and one the
\* store does not know; a populated and the added documents and an unknown one
IndexArgs == {"idx-products", "nope"} \cup FRESH_INDEX_IDS
IndexedArgs == {"prod-1", "nope"} \cup FRESH_INDEXED_IDS

\* a count that stays what create_index made it
document_count_Zero(index_docs) == 0

\* len(self.documents[index_id]) (lines 133, 209)
document_count(index_docs) == Len(index_docs)

\* lines 22-82: self.indices and self.documents after __init__; the table
\* of an index lists its doc_ids in insertion order
populated_index_docs == [i \in MOCK_INDEX_IDS |-> MockIndexDocs(i)]
populated_indices ==
    [i \in MOCK_INDEX_IDS |->
        [document_count |-> document_count(MockIndexDocs(i))]]

\* what the last call returned: an object (found) or None / False
NoInfraReturn == [op |-> "", index |-> "", found |-> FALSE]

\* every doc_id of the store
AllIndexed ==
    UNION {{infra.documents[i][n] : n \in 1..Len(infra.documents[i])} :
              i \in DOMAIN infra.documents}

\* a dict without the key k
Without(f, k) == [x \in DOMAIN f \ {k} |-> f[x]]

\* a list without the entry d
Remove(list, d) == SelectSeq(list, LAMBDA x : x # d)

\* create_index (lines 84-96)
create_index ==
    \E i \in FRESH_INDEX_IDS \ DOMAIN infra.indices :
        /\ infra' = [indices |-> Put(infra.indices, i, [document_count |-> 0]),
                     documents |-> Put(infra.documents, i, <<>>),
                     ret |-> [op |-> "create_index", index |-> i,
                              found |-> TRUE]]
        /\ UNCHANGED <<Config, _mcp_client, pc, arg, state, local, obs, result,
                       router, http, agent, route, docs>>

\* delete_index (lines 98-105)
delete_index ==
    \E i \in IndexArgs :
        /\ infra' =
            IF i \in DOMAIN infra.indices
            THEN [indices |-> Without(infra.indices, i),
                  documents |-> IF i \in DOMAIN infra.documents
                                THEN Without(infra.documents, i)
                                ELSE infra.documents,
                  ret |-> [op |-> "delete_index", index |-> i, found |-> TRUE]]
            ELSE [infra EXCEPT !.ret = [op |-> "delete_index", index |-> i,
                                        found |-> FALSE]]
        /\ UNCHANGED <<Config, _mcp_client, pc, arg, state, local, obs, result,
                       router, http, agent, route, docs>>

\* index_document (lines 115-136)
index_document ==
    \E i \in IndexArgs :
        /\ \/ /\ i \notin DOMAIN infra.indices
              /\ infra' = [infra EXCEPT !.ret = [op |-> "index_document",
                                                 index |-> i, found |-> FALSE]]
           \/ /\ i \in DOMAIN infra.indices
              /\ \E d \in FRESH_INDEXED_IDS \ AllIndexed :
                  LET index_docs == Append(infra.documents[i], d)
                  IN  infra' = [infra EXCEPT
                        !.documents[i] = index_docs,
                        !.indices[i].document_count = document_count(index_docs),
                        !.ret = [op |-> "index_document", index |-> i,
                                 found |-> TRUE]]
        /\ UNCHANGED <<Config, _mcp_client, pc, arg, state, local, obs, result,
                       router, http, agent, route, docs>>

\* delete_document (lines 199-213), named after its route
delete_indexed_document ==
    \E i \in IndexArgs, d \in IndexedArgs :
        /\ infra' =
            IF i \notin DOMAIN infra.documents
            THEN [infra EXCEPT !.ret = [op |-> "delete_document", index |-> i,
                                        found |-> FALSE]]
            ELSE IF \E n \in 1..Len(infra.documents[i]) :
                        infra.documents[i][n] = d
            THEN LET index_docs == Remove(infra.documents[i], d)
                 IN  [infra EXCEPT
                        !.documents[i] = index_docs,
                        !.indices = IF i \in DOMAIN infra.indices
                                    THEN [@ EXCEPT ![i].document_count =
                                              document_count(index_docs)]
                                    ELSE @,
                        !.ret = [op |-> "delete_document", index |-> i,
                                 found |-> TRUE]]
            ELSE [infra EXCEPT !.ret = [op |-> "delete_document", index |-> i,
                                        found |-> FALSE]]
        /\ UNCHANGED <<Config, _mcp_client, pc, arg, state, local, obs, result,
                       router, http, agent, route, docs>>

-----------------------------------------------------------------------------
(* InfrastructureService.search (infrastructure_service.py:144-197,
   specification SpecSearch) *)

\* str.split(): the maximal runs of characters that are no whitespace
RECURSIVE SplitFrom(_, _)
SplitFrom(s, word) ==
    IF s = <<>>
    THEN IF word = <<>> THEN <<>> ELSE <<word>>
    ELSE IF IsSpace(Head(s))
    THEN (IF word = <<>> THEN <<>> ELSE <<word>>) \o SplitFrom(Tail(s), <<>>)
    ELSE SplitFrom(Tail(s), Append(word, Head(s)))
Split(s) == SplitFrom(s, <<>>)

\* str.count(word): the occurrences found from the left, none overlapping
\* another (word is never empty: it comes from split)
RECURSIVE CountFrom(_, _, _)
CountFrom(hay, word, p) ==
    IF p + Len(word) > Len(hay) THEN 0
    ELSE IF StartsAt(hay, word, p)
    THEN 1 + CountFrom(hay, word, p + Len(word))
    ELSE CountFrom(hay, word, p + 1)
Count(hay, word) == CountFrom(hay, word, 0)

\* lines 160-166: the score of a document
RECURSIVE ScoreOf(_, _)
ScoreOf(content_lower, query_words) ==
    IF query_words = <<>> THEN 0
    ELSE Count(content_lower, Head(query_words)) * 10
            + ScoreOf(content_lower, Tail(query_words))

\* a dict is the set of its <<key, value>> pairs; dict.get(key) is None
\* for a missing key
DictGet(dict, key) ==
    IF \E kv \in dict : kv[1] = key
    THEN (CHOOSE kv \in dict : kv[1] = key)[2]
    ELSE None

\* lines 169-176: `if query.filters:` and the loop over its items
FiltersMatch(metadata, filters) ==
    \A kv \in filters : DictGet(metadata, kv[1]) = kv[2]

\* lines 158-179: the (doc, score) entries in the order of the table
RECURSIVE Scored(_, _, _)
Scored(index_docs, query_words, filters) ==
    IF index_docs = <<>> THEN <<>>
    ELSE LET doc == Head(index_docs)
             score == ScoreOf(Lower(doc.content), query_words)
             rest == Scored(Tail(index_docs), query_words, filters)
         IN  IF FiltersMatch(doc.metadata, filters) /\ score > 0
             THEN <<[doc |-> doc, score |-> score]>> \o rest
             ELSE rest

\* a list kept in the order of the table
SortByScore_Unsorted(scored) == scored

\* line 182: list.sort(key=score, reverse=True), a stable sort: entries of
\* equal score keep their order
RECURSIVE SortByScore(_)
SortByScore(scored) ==
    IF scored = <<>> THEN <<>>
    ELSE LET last == scored[Len(scored)]
             front == SortByScore(SubSeq(scored, 1, Len(scored) - 1))
         IN  SelectSeq(front, LAMBDA e : e.score >= last.score)
                \o <<last>>
                \o SelectSeq(front, LAMBDA e : e.score < last.score)

\* scored_results[offset : offset + limit]
Slice(list, offset, limit) ==
    SubSeq(list, offset + 1,
           IF offset + limit < Len(list) THEN offset + limit ELSE Len(list))

\* line 193: min(score / 100.0, 1.0), in hundredths
Normalized(score) == IF score < 100 THEN score ELSE 100

\* search(index_id, query) on an index with the table index_docs:
\* the results and the total
search(index_docs, query) ==
    LET query_words == Split(Lower(query.query))
        scored_results == SortByScore(Scored(index_docs, query_words, query.filters))
        paginated == Slice(scored_results, query.offset, query.limit)
    IN  [results |-> [n \in 1..Len(paginated) |->
                        [doc_id |-> paginated[n].doc.doc_id,
                         content |-> paginated[n].doc.content,
                         score |-> Normalized(paginated[n].score),
                         metadata |-> paginated[n].doc.metadata]],
         total |-> Len(scored_results)]

\* The inputs of the search specification: contents and metadata of the
\* documents of one index, and the fields of a SearchQuery (limit >= 1,
\* offset >= 0, models.py:219-224)
SearchDocs ==
    {[content |-> <<"a", " ", "b">>, metadata |-> {<<"category", "x">>}],
     [content |-> <<"a", " ", "b">>, metadata |-> {<<"category", "y">>}],
     [content |-> <<"A", "a">>, metadata |-> {<<"category", "x">>}],
     [content |-> <<"A", "a">>, metadata |-> {}],
     [content |-> <<"b">>, metadata |-> {<<"category", "x">>}]}
SearchTexts == {<<"a">>, <<"A", " ", "b">>, <<" ">>}
SearchFilters == {{}, {<<"category", "x">>}}
SearchQueries ==
    {[query |-> q, filters |-> f, limit |-> l, offset |-> o] :
        q \in SearchTexts, f \in SearchFilters, l \in 1..2, o \in 0..1}
SearchTables ==
    UNION {{[n \in 1..k |-> [doc_id |-> n, content |-> d[n].content,
                             metadata |-> d[n].metadata]] :
                d \in [1..k -> SearchDocs]} :
           k \in 0..MaxDocs}

\* a search on the index "idx-1" returns
search_documents ==
    \E query \in SearchQueries :
        /\ infra' = [infra EXCEPT !.ret =
                        [op |-> "search", query |-> query,
                         out |-> search(infra.documents["idx-1"], query)]]
        /\ UNCHANGED <<Config, _mcp_client, pc, arg, state, local, obs, result,
                       router, http, agent, route, docs>>

\* nothing has been called yet on the agent, the router and the two stores
NoAgent ==
    [pc |-> "idle",
     analysis |-> [action |-> "", parameters |-> "{}", reasoning |-> ""],
     called |-> "", reply |-> [kind |-> "none", status |-> 0, body |-> ""],
     state |-> [action |-> None, parameters |-> "{}", reasoning |-> "",
                tool_calls |-> <<>>, result |-> None, error |-> None,
                success |-> FALSE]]
NoRoute ==
    [pc |-> "idle", requested |-> None, service |-> None, raised |-> FALSE,
     response |-> [service_type |-> "", action |-> "", status |-> "",
                   message |-> "", final_result |-> None, success |-> FALSE]]
NoDocs == [documents |-> populated_documents, versions |-> populated_versions,
           ret |-> NoReturn]
NoInfra == [indices |-> populated_indices, documents |-> populated_index_docs,
            ret |-> NoInfraReturn]

NoHttp ==
    [pc |-> "idle", method |-> "", reply |-> [kind |-> "none", status |-> 0, body |-> ""],
     returned |-> [kind |-> "none", value |-> ""]]

NoRouter ==
    [pc |-> "idle", reply |-> [kind |-> "none", chars |-> <<>>, truthy |-> FALSE],
     service |-> <<>>, raised |-> FALSE]

Init ==
    /\ Config \in Configs
    /\ _mcp_client = None
    /\ pc = [i \in Inv |-> "idle"]
    /\ arg = [i \in Inv |-> NoArgs]
    /\ state = [i \in Inv |-> NoState]
    /\ local = [i \in Inv |-> NoLocal]
    /\ obs = [i \in Inv |-> NoObs]
    /\ result = [i \in Inv |-> NoResult]
    /\ router = NoRouter
    /\ http = NoHttp
    /\ agent = NoAgent
    /\ route = NoRoute
    /\ docs = NoDocs
    /\ infra = NoInfra

\* one request at a time
Next == Step("a")

Spec == Init /\ [][Next]_vars

-----------------------------------------------------------------------------
(* ServiceRouter._detect_service (orchestrator.py:56-85) *)

S_INFRASTRUCTURE == <<"i", "n", "f", "r", "a", "s", "t", "r", "u", "c", "t", "u", "r", "e">>
S_INQUIRY == <<"i", "n", "q", "u", "i", "r", "y">>
S_DOCUMENT == <<"d", "o", "c", "u", "m", "e", "n", "t">>

\* line 77: the list the answer is validated against
ROUTER_SERVICES == <<S_INFRASTRUCTURE, S_INQUIRY, S_DOCUMENT>>

\* The `action` self.llm.analyze_query may hand back: analysis.get("action", "")
\* is whatever JSON value the model wrote, a str or not (agents.py:82-87).
RouterActionTexts ==
    { <<>>,
      <<"i", "n", "q", "u", "i", "r", "y">>,
      <<" ", "I", "n", "q", "u", "i", "r", "y", "\n">>,
      <<"D", "O", "C", "U", "M", "E", "N", "T">>,
      <<"i", "n", "f", "r", "a", "s", "t", "r", "u", "c", "t", "u", "r", "e">>,
      <<" ", " ">>,
      <<"s", "e", "a", "r", "c", "h">>,
      <<"i", "n", "q", "u", "i", "r", "y", ".">> }
RouterReplies ==
    {[kind |-> "str", chars |-> a, truthy |-> a # <<>>] : a \in RouterActionTexts}
        \cup {[kind |-> "none", chars |-> <<>>, truthy |-> FALSE],
              [kind |-> "other", chars |-> <<>>, truthy |-> FALSE],
              [kind |-> "other", chars |-> <<>>, truthy |-> TRUE],
              [kind |-> "raise", chars |-> <<>>, truthy |-> FALSE]}

\* x in [..] for a list of strs
InList(x, list) == \E n \in 1..Len(list) : list[n] = x

\* lines 67-81, the body of the try: the service returned, or the exception
\* that leaves the body (analyze_query raising; .strip() on a value that is
\* no str)
DetectTryBody(reply) ==
    IF reply.kind = "raise"
    THEN Raised("analyze_query failed")
    ELSE IF reply.truthy /\ reply.kind # "str"
    THEN Raised("AttributeError: no attribute 'strip'")
    ELSE LET service == IF reply.truthy
                        THEN Lower(Strip(reply.chars))
                        ELSE S_INFRASTRUCTURE
         IN  IF InList(service, ROUTER_SERVICES)
             THEN Returned(service)
             ELSE Returned(S_INFRASTRUCTURE)

\* _detect_service without its except clause
DetectExcept_Missing(outcome) == outcome

\* lines 83-85: except Exception: return "infrastructure"
DetectExcept(outcome) ==
    IF outcome.kind = "raise" THEN Returned(S_INFRASTRUCTURE) ELSE outcome

\* _detect_service(query) given the reply of the LLM
RouterDetectService(reply) == DetectExcept(DetectTryBody(reply))

\* await self.llm.analyze_query(query, system_prompt): the LLM answers.
RouterAnalyze ==
    /\ router.pc = "detecting"
    /\ \E reply \in RouterReplies :
        router' = [router EXCEPT !.pc = "analyzed", !.reply = reply]
    /\ UNCHANGED <<Config, _mcp_client, pc, arg, state, local, obs, result, http,
                   agent, route, docs, infra>>

\* The rest of _detect_service, up to its return.
RouterDetect ==
    /\ router.pc = "analyzed"
    /\ LET out == RouterDetectService(router.reply)
       IN  router' = [router EXCEPT !.pc = "done",
                                    !.raised = (out.kind = "raise"),
                                    !.service = IF out.kind = "return"
                                                THEN out.value ELSE <<>>]
    /\ UNCHANGED <<Config, _mcp_client, pc, arg, state, local, obs, result, http,
                   agent, route, docs, infra>>

-----------------------------------------------------------------------------
(* The tool methods of MCPClient (mcp_client.py:31-218, specification
   SpecClient) *)

\* the methods that share the body `try: response = await self.client...;
\* return response.json()  except Exception as e: return {"error": str(e)}`
MCP_METHODS ==
    { "infra_list_indices", "infra_search_documents", "infra_create_index",
      "infra_get_index", "infra_index_document", "inquiry_list", "inquiry_create",
      "inquiry_get", "inquiry_search", "inquiry_add_response",
      "inquiry_update_status", "document_list", "document_upload", "document_get",
      "document_get_versions", "document_get_preview", "document_create_version" }

\* bodies a server sends: three JSON objects and a page that is no JSON
\* {"id": "idx-1"}, {"detail": "Not found"}, {"name": "Error-logs"}
JSON_BODY_TEXTS ==
    { <<"{", "\"", "i", "d", "\"", ":", " ", "\"", "i", "d", "x", "-", "1", "\"", "}">>,
      <<"{", "\"", "d", "e", "t", "a", "i", "l", "\"", ":", " ", "\"", "N", "o", "t", " ", "f", "o", "u", "n", "d", "\"", "}">>,
      <<"{", "\"", "n", "a", "m", "e", "\"", ":", " ", "\"", "E", "r", "r", "o", "r", "-", "l", "o", "g", "s", "\"", "}">> }
JSON_BODIES == {Str(t) : t \in JSON_BODY_TEXTS}
HTTP_BODIES == JSON_BODIES \cup {"<html>Bad Gateway</html>"}
HTTP_STATUSES == {200, 201, 404, 422, 500, 502}

\* await self.client.get/post/put(...): httpx raises (no connection, or no
\* answer within the client's timeout), or there is a response
HttpReplies ==
    {[kind |-> "raise", status |-> 0, body |-> t] :
        t \in {"All connection attempts failed", "ReadTimeout"}}
        \cup {[kind |-> "response", status |-> st, body |-> b] :
                st \in HTTP_STATUSES, b \in HTTP_BODIES}

\* the body of the try: the awaited request, then response.json(); the
\* dict is written as its JSON text
McpTryBody(reply) ==
    IF reply.kind = "raise"
    THEN Raised(reply.body)
    ELSE IF reply.body \in JSON_BODIES
    THEN Returned(reply.body)
    ELSE Raised("Expecting value: line 1 column 1 (char 0)")

\* except Exception as e: return {"error": str(e)}
McpExcept(outcome) ==
    IF outcome.kind = "raise" THEN Returned(json_dumps_error(outcome.value)) ELSE outcome

\* what the method hands to its caller
McpMethod(reply) == McpExcept(McpTryBody(reply))

\* The HTTP request of the method ends.
McpRequest ==
    /\ http.pc = "calling"
    /\ \E reply \in HttpReplies :
        http' = [http EXCEPT !.pc = "replied", !.reply = reply]
    /\ UNCHANGED <<Config, _mcp_client, pc, arg, state, local, obs, result, router,
                   agent, route, docs, infra>>

\* The method returns or raises.
McpReturn ==
    /\ http.pc = "replied"
    /\ http' = [http EXCEPT !.pc = "done", !.returned = McpMethod(http.reply)]
    /\ UNCHANGED <<Config, _mcp_client, pc, arg, state, local, obs, result, router,
                   agent, route, docs, infra>>

\* a tool method of an MCPClient has just been called
InitClient ==
    /\ Config \in Configs
    /\ _mcp_client = None
    /\ pc = [i \in Inv |-> "idle"]
    /\ arg = [i \in Inv |-> NoArgs]
    /\ state = [i \in Inv |-> NoState]
    /\ local = [i \in Inv |-> NoLocal]
    /\ obs = [i \in Inv |-> NoObs]
    /\ result = [i \in Inv |-> NoResult]
    /\ router = NoRouter
    /\ \E method \in MCP_METHODS :
        http = [NoHttp EXCEPT !.pc = "calling", !.method = method]
    /\ agent = NoAgent
    /\ route = NoRoute
    /\ docs = NoDocs
    /\ infra = NoInfra

NextClient ==
    \/ McpRequest
    \/ McpReturn

SpecClient == InitClient /\ [][NextClient]_vars

-----------------------------------------------------------------------------
(* InfrastructureAgent.run (agents.py:213-302, specification SpecAgent) *)

\* The triple self.analyze_query hands back: analysis.get("action", ""),
\* .get("parameters", {}), .get("reasoning", "") of the JSON the model
\* wrote (a value may be null), or ("", {}, "Error: ...") when the LLM
\* raised (agents.py:82-93, 200-206).
AGENT_ACTIONS ==
    {"list_indices", "create_index", "get_index", "search", "index_document"}
Analyses ==
    {[action |-> a, parameters |-> p, reasoning |-> r] :
        a \in AGENT_ACTIONS \cup {"", None, "delete_index"},
        p \in {"{}", "null"},
        r \in {"The user asks for it", None}}
        \cup {[action |-> "", parameters |-> "{}",
               reasoning |-> "Error: 503 service unavailable"]}

\* the MCPClient method each action calls (lines 263-289)
AgentMethod(action) ==
    CASE action = "list_indices" -> "infra_list_indices"
      [] action = "create_index" -> "infra_create_index"
      [] action = "get_index" -> "infra_get_index"
      [] action = "search" -> "infra_search_documents"
      [] action = "index_document" -> "infra_index_document"
      [] OTHER -> ""

\* lines 248-251: the AgentState after the analysis
AgentAnalyzed(a) ==
    [NoAgent.state EXCEPT !.action = a.action, !.parameters = a.parameters,
                          !.reasoning = a.reasoning]

\* `not action`
NoAction(action) == action \in {"", None}

\* a run that returns the analysed state without naming the failure
AgentGivesUp_Silent(st) == st

\* lines 253-256
AgentGivesUp(st) ==
    [st EXCEPT !.error = "Could not determine action", !.success = FALSE]

\* the branch reads parameters.get(...), which a null `parameters` has not
ParametersRaise(st) ==
    /\ st.action \in AGENT_ACTIONS \ {"list_indices"}
    /\ st.parameters = "null"

\* "error" in str(result).lower(): the str of a dict {"error": ...} holds
\* its key; the str of another payload holds the characters of its text
ErrorInStr(payload) ==
    IF payload \in JSON_BODIES
    THEN SubstringIn(<<"e", "r", "r", "o", "r">>,
                     Lower(CHOOSE t \in JSON_BODY_TEXTS : Str(t) = payload))
    ELSE TRUE



\* line 295
AgentSuccess(payload) == ~ErrorInStr(payload)

\* lines 260-295, the body of the try, the collaborator answering `reply`:
\* the state it leaves, or the exception
AgentTryBody(st, reply) ==
    LET st1 == [st EXCEPT !.tool_calls =
                    Append(@, [tool |-> st.action, params |-> st.parameters])]
    IN  IF ParametersRaise(st)
        THEN [kind |-> "raise", state |-> st1,
              value |-> "'NoneType' object has no attribute 'get'"]
        ELSE LET payload == IF st.action \in AGENT_ACTIONS
                            THEN McpMethod(reply).value
                            ELSE json_dumps_error("Unknown action: " \o st.action)
             IN  [kind |-> "return", value |-> "",
                  state |-> [st1 EXCEPT !.result = payload,
                                        !.success = AgentSuccess(payload)]]

\* lines 297-300
AgentExcept(out) ==
    IF out.kind = "raise"
    THEN [out.state EXCEPT !.error = "Error executing tool: " \o out.value,
                           !.success = FALSE]
    ELSE out.state

\* InfrastructureAgent.run after the analysis `a`, the collaborator
\* answering `reply` if it is called
AgentRun(a, reply) ==
    IF NoAction(a.action)
    THEN AgentGivesUp(AgentAnalyzed(a))
    ELSE AgentExcept(AgentTryBody(AgentAnalyzed(a), reply))

\* the collaborator is called: a recognised action whose parameters can be read
AgentCalls(a) ==
    /\ a.action \in AGENT_ACTIONS
    /\ ~ParametersRaise(AgentAnalyzed(a))

\* await self.analyze_query(query, system_prompt) returns
AgentAnalyze ==
    /\ agent.pc = "running"
    /\ \E a \in Analyses :
        agent' = [agent EXCEPT !.pc = "analyzed", !.analysis = a,
                               !.state = AgentAnalyzed(a)]
    /\ UNCHANGED <<Config, _mcp_client, pc, arg, state, local, obs, result,
                   router, http, route, docs, infra>>

\* the rest of run, up to `return state`
AgentFinish ==
    /\ agent.pc = "analyzed"
    /\ \E reply \in IF AgentCalls(agent.analysis)
                     THEN HttpReplies ELSE {NoHttp.reply} :
        agent' = [agent EXCEPT
            !.pc = "done",
            !.called = IF AgentCalls(agent.analysis)
                       THEN AgentMethod(agent.analysis.action) ELSE "",
            !.reply = reply,
            !.state = AgentRun(agent.analysis, reply)]
    /\ UNCHANGED <<Config, _mcp_client, pc, arg, state, local, obs, result,
                   router, http, route, docs, infra>>

\* InfrastructureAgent.run(query) has just been called
InitAgent ==
    /\ Config \in Configs
    /\ _mcp_client = None
    /\ pc = [i \in Inv |-> "idle"]
    /\ arg = [i \in Inv |-> NoArgs]
    /\ state = [i \in Inv |-> NoState]
    /\ local = [i \in Inv |-> NoLocal]
    /\ obs = [i \in Inv |-> NoObs]
    /\ result = [i \in Inv |-> NoResult]
    /\ router = NoRouter
    /\ http = NoHttp
    /\ agent = [NoAgent EXCEPT !.pc = "running"]
    /\ route = NoRoute
    /\ docs = NoDocs
    /\ infra = NoInfra

NextAgent ==
    \/ AgentAnalyze
    \/ AgentFinish

SpecAgent == InitAgent /\ [][NextAgent]_vars

-----------------------------------------------------------------------------
(* ServiceRouter.route_request (orchestrator.py:25-172, specification
   SpecRoute) *)

\* request.service: Optional[str], any text the caller sends
RequestedServices ==
    {None, "", "infrastructure", "inquiry", "document", "billing"}

\* `not service`
NoService(service) == service \in {None, ""}

\* AgentResponse(reasoning: str) refuses a reasoning that is no str
ResponseRaises(st) == st.reasoning = None

\* lines 88-121, the body of the try of _handle_infrastructure, the agent
\* having returned the state st
InfraTryBody(st) ==
    IF ResponseRaises(st)
    THEN Raised("1 validation error for AgentResponse")
    ELSE Returned(
        [service_type |-> "infrastructure",
         action |-> IF NoAction(st.action) THEN "unknown" ELSE st.action,
         status |-> IF st.success THEN "success" ELSE "error",
         message |-> IF st.error # None
                     THEN st.error ELSE "Infrastructure request completed",
         final_result |-> st.result,
         success |-> st.success])

\* lines 123-136
InfraExcept(out) ==
    IF out.kind = "raise"
    THEN Returned(
        [service_type |-> "infrastructure", action |-> "error",
         status |-> "error", message |-> out.value, final_result |-> None,
         success |-> FALSE])
    ELSE out

\* _handle_infrastructure, the agent having returned the state st
handle_infrastructure(st) == InfraExcept(InfraTryBody(st))

\* lines 138-154
handle_inquiry ==
    Returned(
        [service_type |-> "inquiry", action |-> "process", status |-> "pending",
         message |-> "Inquiry agent not yet implemented",
         final_result |-> None, success |-> FALSE])

\* lines 156-172
handle_document ==
    Returned(
        [service_type |-> "document", action |-> "process", status |-> "pending",
         message |-> "Document agent not yet implemented",
         final_result |-> None, success |-> FALSE])

\* lines 43-54
handle_unknown(service) ==
    Returned(
        [service_type |-> "unknown", action |-> "error", status |-> "error",
         message |-> "Unknown service: " \o service, final_result |-> None,
         success |-> FALSE])

\* lines 29-31 with a service in the request
RouteSupplied ==
    /\ route.pc = "called"
    /\ ~NoService(route.requested)
    /\ route' = [route EXCEPT !.pc = "routing", !.service = route.requested]
    /\ UNCHANGED <<Config, _mcp_client, pc, arg, state, local, obs, result,
                   router, http, agent, docs, infra>>

\* lines 29-31 without one: await self._detect_service(request.query)
RouteDetect ==
    /\ route.pc = "called"
    /\ NoService(route.requested)
    /\ \E reply \in RouterReplies :
        LET out == RouterDetectService(reply)
        IN  /\ router' = [router EXCEPT !.reply = reply]
            /\ route' = IF out.kind = "raise"
                        THEN [route EXCEPT !.pc = "done", !.raised = TRUE]
                        ELSE [route EXCEPT !.pc = "routing",
                                           !.service = Str(out.value)]
    /\ UNCHANGED <<Config, _mcp_client, pc, arg, state, local, obs, result,
                   http, agent, docs, infra>>

\* lines 36-37: the infrastructure agent runs and its state is converted
RouteInfrastructure ==
    /\ route.pc = "routing"
    /\ route.service = "infrastructure"
    /\ \E a \in Analyses :
       \E reply \in IF AgentCalls(a) THEN HttpReplies ELSE {NoHttp.reply} :
        LET st == AgentRun(a, reply)
            out == handle_infrastructure(st)
        IN  /\ agent' = [agent EXCEPT
                    !.pc = "done", !.analysis = a, !.reply = reply,
                    !.called = IF AgentCalls(a)
                               THEN AgentMethod(a.action) ELSE "",
                    !.state = st]
            /\ route' = [route EXCEPT !.pc = "done",
                                      !.raised = (out.kind = "raise"),
                                      !.response = IF out.kind = "return"
                                                   THEN out.value ELSE @]
    /\ UNCHANGED <<Config, _mcp_client, pc, arg, state, local, obs, result,
                   router, http, docs, infra>>

\* lines 38-39
RouteInquiry ==
    /\ route.pc = "routing"
    /\ route.service = "inquiry"
    /\ route' = [route EXCEPT !.pc = "done", !.response = handle_inquiry.value]
    /\ UNCHANGED <<Config, _mcp_client, pc, arg, state, local, obs, result,
                   router, http, agent, docs, infra>>

\* lines 40-41
RouteDocument ==
    /\ route.pc = "routing"
    /\ route.service = "document"
    /\ route' = [route EXCEPT !.pc = "done", !.response = handle_document.value]
    /\ UNCHANGED <<Config, _mcp_client, pc, arg, state, local, obs, result,
                   router, http, agent, docs, infra>>

\* lines 42-54
RouteUnknown ==
    /\ route.pc = "routing"
    /\ route.service \notin {"infrastructure", "inquiry", "document"}
    /\ route' = [route EXCEPT !.pc = "done",
                              !.response = handle_unknown(route.service).value]
    /\ UNCHANGED <<Config, _mcp_client, pc, arg, state, local, obs, result,
                   router, http, agent, docs, infra>>

\* route_request(request) has just been called
InitRoute ==
    /\ Config \in Configs
    /\ _mcp_client = None
    /\ pc = [i \in Inv |-> "idle"]
    /\ arg = [i \in Inv |-> NoArgs]
    /\ state = [i \in Inv |-> NoState]
    /\ local = [i \in Inv |-> NoLocal]
    /\ obs = [i \in Inv |-> NoObs]
    /\ result = [i \in Inv |-> NoResult]
    /\ router = NoRouter
    /\ http = NoHttp
    /\ agent = NoAgent
    /\ \E s \in RequestedServices :
        route = [NoRoute EXCEPT !.pc = "called", !.requested = s]
    /\ docs = NoDocs
    /\ infra = NoInfra

NextRoute ==
    \/ RouteSupplied
    \/ RouteDetect
    \/ RouteInfrastructure
    \/ RouteInquiry
    \/ RouteDocument
    \/ RouteUnknown

SpecRoute == InitRoute /\ [][NextRoute]_vars

-----------------------------------------------------------------------------
(* The document store under any sequence of calls *)

\* DocumentService() has just been constructed
InitDocs ==
    /\ Config = DefaultConfig
    /\ _mcp_client = None
    /\ pc = [i \in Inv |-> "idle"]
    /\ arg = [i \in Inv |-> NoArgs]
    /\ state = [i \in Inv |-> NoState]
    /\ local = [i \in Inv |-> NoLocal]
    /\ obs = [i \in Inv |-> NoObs]
    /\ result = [i \in Inv |-> NoResult]
    /\ router = NoRouter
    /\ http = NoHttp
    /\ agent = NoAgent
    /\ route = NoRoute
    /\ docs = NoDocs
    /\ infra = NoInfra

NextDocs ==
    \/ upload_document
    \/ update_document
    \/ delete_document
    \/ create_version

SpecDocs == InitDocs /\ [][NextDocs]_vars

-----------------------------------------------------------------------------
(* The index store under any sequence of calls *)

\* InfrastructureService() has just been constructed
InitInfra ==
    /\ Config = DefaultConfig
    /\ _mcp_client = None
    /\ pc = [i \in Inv |-> "idle"]
    /\ arg = [i \in Inv |-> NoArgs]
    /\ state = [i \in Inv |-> NoState]
    /\ local = [i \in Inv |-> NoLocal]
    /\ obs = [i \in Inv |-> NoObs]
    /\ result = [i \in Inv |-> NoResult]
    /\ router = NoRouter
    /\ http = NoHttp
    /\ agent = NoAgent
    /\ route = NoRoute
    /\ docs = NoDocs
    /\ infra = NoInfra

NextInfra ==
    \/ create_index
    \/ delete_index
    \/ index_document
    \/ delete_indexed_document

SpecInfra == InitInfra /\ [][NextInfra]_vars

-----------------------------------------------------------------------------
(* search on every small index *)

\* a store with the one index "idx-1", its documents drawn
InitSearch ==
    /\ Config = DefaultConfig
    /\ _mcp_client = None
    /\ pc = [i \in Inv |-> "idle"]
    /\ arg = [i \in Inv |-> NoArgs]
    /\ state = [i \in Inv |-> NoState]
    /\ local = [i \in Inv |-> NoLocal]
    /\ obs = [i \in Inv |-> NoObs]
    /\ result = [i \in Inv |-> NoResult]
    /\ router = NoRouter
    /\ http = NoHttp
    /\ agent = NoAgent
    /\ route = NoRoute
    /\ docs = NoDocs
    /\ \E table \in SearchTables :
        infra = [indices |-> [i \in {"idx-1"} |->
                                [document_count |-> document_count(table)]],
                 documents |-> [i \in {"idx-1"} |-> table],
                 ret |-> [op |-> "", query |-> [query |-> <<>>, filters |-> {},
                                                limit |-> 1, offset |-> 0],
                          out |-> [results |-> <<>>, total |-> 0]]]

NextSearch == search_documents

SpecSearch == InitSearch /\ [][NextSearch]_vars

-----------------------------------------------------------------------------
(* The two classifiers on every short query *)

Alphabet == {"t", "T", "x", "X", "p", "m", "g", "e"}
AllQueries == SeqsUpTo(Alphabet, MaxLen)

\* invoke_agent_graph(query) has just entered the graph, and
\* ServiceRouter._detect_service(query) has just been called.
InitClassify ==
    /\ Config \in {c \in Configs : get_llm(c).kind = "return"}
    /\ _mcp_client = None
    /\ \E query \in AllQueries :
        /\ arg = [i \in Inv |-> IF i = "a" THEN [NoArgs EXCEPT !.query = query]
                                           ELSE NoArgs]
        /\ state = [i \in Inv |-> IF i = "a" THEN initial_state(query) ELSE NoState]
    /\ pc = [i \in Inv |-> IF i = "a" THEN "orchestrator" ELSE "idle"]
    /\ local = [i \in Inv |-> NoLocal]
    /\ obs = [i \in Inv |-> NoObs]
    /\ result = [i \in Inv |-> NoResult]
    /\ router = [NoRouter EXCEPT !.pc = "detecting"]
    /\ http = NoHttp
    /\ agent = NoAgent
    /\ route = NoRoute
    /\ docs = NoDocs
    /\ infra = NoInfra

NextClassify ==
    \/ Orchestrator("a")
    \/ RouterAnalyze
    \/ RouterDetect

SpecClassify == InitClassify /\ [][NextClassify]_vars

-----------------------------------------------------------------------------
(* The workflow with the offline backend (specification SpecMock) *)

\* 'list payments', 'what is the weather', 'payment stats',
\* 'search transactions', 'find payment', 'iban status'
MockQueries ==
    { <<"l", "i", "s", "t", " ", "p", "a", "y", "m", "e", "n", "t", "s">>,
      <<"w", "h", "a", "t", " ", "i", "s", " ", "t", "h", "e", " ", "w", "e", "a", "t", "h", "e", "r">>,
      <<"p", "a", "y", "m", "e", "n", "t", " ", "s", "t", "a", "t", "s">>,
      <<"s", "e", "a", "r", "c", "h", " ", "t", "r", "a", "n", "s", "a", "c", "t", "i", "o", "n", "s">>,
      <<"f", "i", "n", "d", " ", "p", "a", "y", "m", "e", "n", "t">>,
      <<"i", "b", "a", "n", " ", "s", "t", "a", "t", "u", "s">>,
      <<"p", "a", "y", "m", "e", "n", "t", " ", "s", "t", "a", "t", "i", "s", "t", "i", "c">> }

\* LLM_PROVIDER=mock; invoke_agent_graph(query, mcp_client) has just entered
\* the graph, for a query of the list above or any short query.
InitMock ==
    /\ Config = [LLM_PROVIDER |-> "mock", GOOGLE_CLOUD_PROJECT |-> ""]
    /\ \E query \in MockQueries \cup AllQueries, mcp_client \in Clients \cup {None} :
        /\ _mcp_client = mcp_client
        /\ arg = [i \in Inv |-> IF i = "a"
                                THEN [query |-> query, mcp_client |-> mcp_client]
                                ELSE NoArgs]
        /\ state = [i \in Inv |-> IF i = "a" THEN initial_state(query) ELSE NoState]
    /\ pc = [i \in Inv |-> IF i = "a" THEN "orchestrator" ELSE "idle"]
    /\ local = [i \in Inv |-> NoLocal]
    /\ obs = [i \in Inv |-> NoObs]
    /\ result = [i \in Inv |-> NoResult]
    /\ router = NoRouter
    /\ http = NoHttp
    /\ agent = NoAgent
    /\ route = NoRoute
    /\ docs = NoDocs
    /\ infra = NoInfra

NextMock ==
    \/ Orchestrator("a")
    \/ InquiryAgentEntry("a")
    \/ InquiryPhase1("a")
    \/ InquiryExecTool("a")
    \/ InquiryPhase2("a")
    \/ GeneralAgentEntry("a")
    \/ GeneralLLM("a")
    \/ ReturnResult("a")

SpecMock == InitMock /\ [][NextMock]_vars

-----------------------------------------------------------------------------
(* detect_service called twice on a state dict (specification SpecTwice) *)

\* an AgentState whose fields other than query are already filled
FilledState ==
    [query |-> <<>>,
     messages |-> <<HumanMessage("hi")>>,
     service_type |-> GENERAL,
     tool_calls |-> <<[id |-> "call_1", name |-> "list_payments", args |-> "{}"]>>,
     tool_results |-> <<[tool |-> "list_payments", args |-> "{}", result |-> "{}"]>>,
     response |-> "Here is what I found.",
     error |-> "503 service unavailable"]

\* detect_service is about to be called on a fresh or a filled state
InitTwice ==
    /\ Config \in {c \in Configs : get_llm(c).kind = "return"}
    /\ _mcp_client = None
    /\ \E query \in AllQueries, s \in {NoState, FilledState} :
        /\ arg = [i \in Inv |-> IF i = "a" THEN [NoArgs EXCEPT !.query = query]
                                           ELSE NoArgs]
        /\ state = [i \in Inv |-> IF i = "a" THEN [s EXCEPT !.query = query]
                                             ELSE NoState]
    /\ pc = [i \in Inv |-> IF i = "a" THEN "orchestrator" ELSE "idle"]
    /\ local = [i \in Inv |-> NoLocal]
    /\ obs = [i \in Inv |-> NoObs]
    /\ result = [i \in Inv |-> NoResult]
    /\ router = NoRouter
    /\ http = NoHttp
    /\ agent = NoAgent
    /\ route = NoRoute
    /\ docs = NoDocs
    /\ infra = NoInfra

\* the caller hands the state detect_service returned to detect_service again
CallAgain(i) ==
    /\ pc[i] \in {"inquiry_agent", "general_agent"}
    /\ Len(obs[i].nodes) = 1
    /\ pc' = [pc EXCEPT ![i] = "orchestrator"]
    /\ UNCHANGED <<Config, _mcp_client, arg, state, local, obs, result, router, http,
                   agent, route, docs, infra>>

NextTwice ==
    \/ Orchestrator("a")
    \/ CallAgain("a")

SpecTwice == InitTwice /\ [][NextTwice]_vars

-----------------------------------------------------------------------------
(* An LLM call that never completes (specification SpecDeadline) *)

\* await asyncio.to_thread(llm.invoke, messages) (lines 495, 535, 569) with
\* a provider that never answers: the coroutine stays suspended.  Neither
\* invoke_agent_graph nor the endpoint awaits it under a timeout
\* (asyncio.wait_for is not used; Config.TIMEOUT is read nowhere).
LLMNeverReturns(i) ==
    /\ pc[i] \in {"inquiry_llm1", "inquiry_llm2", "general_llm"}
    /\ pc' = [pc EXCEPT ![i] = "awaiting"]
    /\ obs' = [obs EXCEPT ![i].llm_calls = @ + 1]
    /\ UNCHANGED <<Config, _mcp_client, arg, state, local, result, router, http,
                   agent, route, docs, infra>>

NextDeadline ==
    \/ Step("a")
    \/ LLMNeverReturns("a")

\* every step the program can take is taken
SpecDeadline == Init /\ [][NextDeadline]_vars /\ WF_vars(NextDeadline)

-----------------------------------------------------------------------------
(* Two requests in flight at once (specification SpecConc) *)

\* the client each of the two callers passes
ClientOf(i) == IF i = "a" THEN "client_A" ELSE "client_B"

\* The inputs of the interleaved runs: each caller passes its own client,
\* the LLM proposes at most the one call list_payments and answers with one
\* text, and it raises with one text.
ConcInputs ==
    \A i \in Inv :
        /\ pc[i] # "idle" => arg[i].mcp_client = ClientOf(i)
        /\ local[i].response \in
                { NoLocal.response,
                  AIMessage("Here is what I found.", <<>>),
                  AIMessage("", <<[id |-> "call_1", name |-> "list_payments",
                                  args |-> "{}"]>>) }
        /\ ~obs[i].reply2_tool_calls
        /\ obs[i].reply2_content \in {"", "Here is what I found."}
        /\ obs[i].llm_raised # 0 => local[i].exc = "503 service unavailable"

\* The event loop runs one invocation up to its next await, then any of
\* the two (main.py:121-162: each request is a coroutine of its own).
NextConc ==
    \E i \in Inv :
        \/ Invoke(i) /\ ConcInputs'
        \/ Orchestrator(i)
        \/ InquiryAgentEntry(i)
        \/ InquiryPhase1(i) /\ ConcInputs'
        \/ InquiryExecTool(i)
        \/ InquiryPhase2(i) /\ ConcInputs'
        \/ GeneralAgentEntry(i)
        \/ GeneralLLM(i) /\ ConcInputs'
        \/ ReturnResult(i)
        \/ NextRequest(i)

SpecConc == Init /\ [][NextConc]_vars

-----------------------------------------------------------------------------
(* Properties of the workflow (specification Spec) *)

Terminal == {"graph_end", "graph_raised", "done"}

\* the tool calls the first reply of invocation i requested
Calls(i) == local[i].response.tool_calls

\* invocation i took the tool branch of inquiry_agent
UsedTools(i) == RequestsTools(local[i].response)

IsToolMessage(m) == m.type = "tool"

\* C1: at the end of a run that entered the tool branch, tool_results has
\* as many entries as the LLM requested tool calls.
C1_OneResultPerRequestedCall ==
    \A i \in Inv :
        (pc[i] \in {"graph_end", "done"} /\ UsedTools(i))
            => Len(state[i].tool_results) = Len(Calls(i))

\* C2: position k of tool_results describes the k-th requested call, an
\* error entry when that call raised: [A, B] with A succeeding and B failing
\* gives [success(A), error(B)].
C2_ResultsFollowRequestOrder ==
    \A i \in Inv :
        (pc[i] \in {"graph_end", "done"} /\ UsedTools(i))
            => \A k \in 1..Len(Calls(i)) :
                /\ k <= Len(state[i].tool_results)
                /\ state[i].tool_results[k].tool = Calls(i)[k].name
                /\ state[i].tool_results[k].args = Calls(i)[k].args
                /\ k \in obs[i].tools_raised
                    => state[i].tool_results[k].result \in ErrorPayloads

\* C3: a run whose first reply requests tools calls the LLM exactly twice,
\* never a third time; once the second call is made no tool runs any more,
\* and the second reply's content is the response even when that reply
\* requests tools again.
C3_TwoLLMRoundTrips ==
    \A i \in Inv :
        /\ obs[i].llm_calls <= 2
        /\ obs[i].llm_calls = 2 => pc[i] \in Terminal
        /\ (UsedTools(i) /\ pc[i] \in Terminal) => obs[i].llm_calls = 2
        /\ (UsedTools(i) /\ pc[i] \in {"graph_end", "done"})
            => state[i].response = obs[i].reply2_content

C3_Witness ==
    \E i \in Inv :
        /\ pc[i] = "done"
        /\ UsedTools(i)
        /\ obs[i].reply2_tool_calls
        /\ obs[i].llm_calls = 2
        /\ result[i].success
        /\ result[i].response = "Here is what I found."

\* C4: when the phase-2 LLM call is about to be made, the message log holds
\* one tool-result message per requested call, in order, an error payload
\* for an unregistered name and for a call that raised.
C4_ToolMessagePerCallBeforePhase2 ==
    \A i \in Inv :
        pc[i] = "inquiry_llm2"
            => LET msgs == SelectSeq(local[i].messages, IsToolMessage)
               IN  /\ Len(msgs) = Len(Calls(i))
                   /\ \A k \in 1..Len(Calls(i)) :
                        /\ msgs[k].tool_call_id = Calls(i)[k].id
                        /\ (tool_fn(Calls(i)[k].name) = None \/ k \in obs[i].tools_raised)
                            => msgs[k].content \in ErrorPayloads

\* C5: an exception raised by a tool call stays inside the agent: the only
\* exception that can leave the agent afterwards is the phase-2 LLM's, every
\* registered call of the batch is run, and the run does not end before the
\* second LLM call.
C5_ToolExceptionContained ==
    \A i \in Inv :
        obs[i].tools_raised # {}
            => /\ local[i].exc # None => obs[i].llm_raised = 2
               /\ pc[i] \in {"inquiry_tools", "inquiry_llm2"} \cup Terminal
               /\ pc[i] # "inquiry_tools"
                    => \A k \in 1..Len(Calls(i)) :
                        tool_fn(Calls(i)[k].name) # None
                            => \E n \in 1..Len(obs[i].tools_run) : obs[i].tools_run[n] = k
               /\ pc[i] \in Terminal => obs[i].llm_calls = 2

C5_Witness ==
    \E i \in Inv :
        /\ pc[i] = "done"
        /\ obs[i].tools_raised = {1}
        /\ obs[i].tools_run = <<1, 2>>
        /\ result[i].success

\* C6: when the LLM call of phase 1 or phase 2 raised, invoke_agent_graph
\* returns a dict with success false, the error recorded and a non-empty
\* response text.
C6_LLMFailureReturnsErrorResult ==
    \A i \in Inv :
        (pc[i] = "done" /\ obs[i].llm_raised # 0)
            => /\ result[i].returned
               /\ ~result[i].success
               /\ result[i].error # Absent
               /\ result[i].error = local[i].exc
               /\ result[i].response \notin {"", Absent}

C6_Witness ==
    \E i \in Inv :
        /\ pc[i] = "done"
        /\ obs[i].llm_raised = 2
        /\ local[i].exc = ""
        /\ result[i].returned

\* C7: every returned result is either (success, non-empty response, no
\* error) or (no success, error set).
C7_ExactlyOneTerminalOutcome ==
    \A i \in Inv :
        result[i].returned
            => \/ /\ result[i].success
                  /\ result[i].response \notin {"", Absent}
                  /\ result[i].error = Absent
               \/ /\ ~result[i].success
                  /\ result[i].error # Absent

\* C8: the classifier node runs first and sets a service_type before an
\* agent node starts; one agent node runs, the one the service_type selects,
\* and then the graph ends.
C8_ClassifyThenOneAgent ==
    \A i \in Inv :
        LET n == obs[i].nodes
        IN  /\ Len(n) <= 2
            /\ Len(n) >= 1
                => /\ n[1] = "orchestrator"
                   /\ state[i].service_type \in {INQUIRY, GENERAL}
            /\ Len(n) = 2
                => n[2] = IF state[i].service_type = INQUIRY
                          THEN "inquiry_agent" ELSE "general_agent"
            /\ pc[i] \in {"inquiry_agent", "general_agent"} => Len(n) = 1
            /\ pc[i] \in {"graph_end", "graph_raised"} => Len(n) = 2

C8_Witness ==
    \E i \in Inv :
        /\ pc[i] = "graph_end"
        /\ obs[i].nodes = <<"orchestrator", "general_agent">>
        /\ state[i].service_type = GENERAL

-----------------------------------------------------------------------------
(* Properties of the classifiers (specification SpecClassify) *)

KeywordSet == {inquiry_keywords[n] : n \in 1..Len(inquiry_keywords)}

\* some stretch q[a..b] of the query, lower-cased, is a keyword
HasKeyword(q) ==
    \E a \in 1..Len(q), b \in 1..Len(q) :
        /\ a <= b
        /\ [k \in 1..(b - a + 1) |-> LowerChar(q[a + k - 1])] \in KeywordSet

\* C9: detect_service assigns "inquiry" to a query whose lower-cased text
\* contains a keyword and the default "general" to every other query.
C9_KeywordDecidesCategory ==
    pc["a"] # "orchestrator"
        => state["a"].service_type =
                IF HasKeyword(state["a"].query) THEN "inquiry" ELSE "general"

C9_Witness ==
    /\ pc["a"] # "orchestrator"
    /\ state["a"].query = <<"p", "T", "X">>
    /\ state["a"].service_type = "inquiry"

\* C10: both classifiers are total: detect_service leaves inquiry or general,
\* ServiceRouter._detect_service returns infrastructure, inquiry or document
\* and raises nothing, whatever the LLM answered or raised.
C10_ClassifiersTotal ==
    /\ pc["a"] # "orchestrator" => state["a"].service_type \in {INQUIRY, GENERAL}
    /\ router.pc = "done"
        => /\ ~router.raised
           /\ router.service \in {S_INFRASTRUCTURE, S_INQUIRY, S_DOCUMENT}

C10_Witness ==
    /\ pc["a"] # "orchestrator"
    /\ router.pc = "done"
    /\ router.reply.kind = "other"
    /\ router.reply.truthy
    /\ router.service = S_INFRASTRUCTURE

-----------------------------------------------------------------------------
(* Properties of detect_service called twice (specification SpecTwice) *)

OtherFields == {"query", "messages", "tool_calls", "tool_results", "response", "error"}

\* C11: a call of detect_service leaves query, messages, tool_calls,
\* tool_results, response and error of the state as they were, and a second
\* call on the same query leaves the service_type the first call set.
C11_ClassifyTouchesOnlyServiceType ==
    [][\A i \in Inv :
        pc[i] = "orchestrator"
            => /\ \A f \in OtherFields : state'[i][f] = state[i][f]
               /\ Len(obs[i].nodes) = 1
                    => state'[i].service_type = state[i].service_type]_vars

C11_Witness ==
    /\ obs["a"].nodes = <<"orchestrator", "orchestrator">>
    /\ state["a"].service_type = INQUIRY
    /\ state["a"].response = "Here is what I found."
    /\ state["a"].tool_results # <<>>

-----------------------------------------------------------------------------
(* Properties of successive and interleaved invocations *)

\* the strs a tool may return when it runs against `client`
PayloadsWith(tool_name, args, client) ==
    {o.value : o \in {x \in ToolOutcomes(tool_name, args, client) : x.kind = "return"}}

\* C12: the tools of an invocation use the client that invocation was given
\* (none when it was given none), and every entry of the tool_results it
\* returns is a payload that client can have produced, whatever invocations
\* came before.
C12_StatelessBetweenInvocations ==
    \A i \in Inv :
        /\ obs[i].clients_used \subseteq {arg[i].mcp_client}
        /\ pc[i] = "done"
            => \A k \in 1..Len(result[i].tool_results) :
                LET r == result[i].tool_results[k]
                IN  r.result \in PayloadsWith(r.tool, r.args, arg[i].mcp_client)

\* C13: with two invocations interleaved at their awaits, every tool call
\* of an invocation that was given a client runs against that client.
C13_ToolsRunAgainstOwnClient ==
    \A i \in Inv :
        arg[i].mcp_client \in Clients
            => \A c \in obs[i].clients_used : c = arg[i].mcp_client

-----------------------------------------------------------------------------
(* Properties of the request path (specification SpecDeadline) *)

\* C14: every request that entered the graph is answered: invoke_agent_graph
\* returns a result, also when an LLM call never completes.
C14_EveryRequestAnswered ==
    \A i \in Inv : (pc[i] = "orchestrator") ~> (pc[i] = "done")

-----------------------------------------------------------------------------
(* Properties of the provider setting (specification Spec) *)

\* C15: in a process whose provider setting get_llm rejects, no request is
\* classified and no agent node is entered.
C15_InvalidProviderServesNothing ==
    get_llm(Config).kind = "raise"
        => \A i \in Inv : obs[i].nodes = <<>>

-----------------------------------------------------------------------------
(* Properties of the offline backend (specification SpecMock) *)

ToolWordSet == {MOCK_TOOL_WORDS[n] : n \in 1..Len(MOCK_TOOL_WORDS)}

\* some stretch of the query, lower-cased, is one of the words
ContainsWord(q, words) ==
    \E a \in 1..Len(q), b \in 1..Len(q) :
        /\ a <= b
        /\ [k \in 1..(b - a + 1) |-> LowerChar(q[a + k - 1])] \in words

ListPayments == <<"l", "i", "s", "t", " ", "p", "a", "y", "m", "e", "n", "t", "s">>

\* how MockLLM opens the answer to a tool result
SummaryOpenings ==
    { "Found 0 payments in the system. Here are the details:\n\n",
      "Found 0 transactions. Here are the details:\n\n",
      "Here are the results:\n\n" }

\* the inquiry agent of invocation i has the first reply of the LLM
HasFirstReply(i) ==
    /\ Len(obs[i].nodes) = 2
    /\ obs[i].nodes[2] = "inquiry_agent"
    /\ obs[i].llm_calls >= 1

\* C16: MockLLM with tools bound answers a history without tool result
\* whose user message holds a tool word with exactly one call of a
\* registered tool, for 'list payments' the call list_payments(limit=10);
\* it answers a history with a tool result with no tool call and a text
\* that ends with the first tool result's content; the run on
\* 'list payments' returns service_type inquiry, one tool_results entry
\* and success.
C16_MockTwoPhase ==
    \A i \in Inv :
        /\ (HasFirstReply(i) /\ ContainsWord(arg[i].query, ToolWordSet))
            => /\ Len(Calls(i)) = 1
               /\ tool_fn(Calls(i)[1].name) # None
        /\ (HasFirstReply(i) /\ arg[i].query = ListPayments)
            => Calls(i) = <<[id |-> "mock_tool_call_1", name |-> "list_payments",
                            args |-> "{\"limit\": 10}"]>>
        /\ obs[i].llm_calls = 2
            => /\ ~obs[i].reply2_tool_calls
               /\ LET msgs == SelectSeq(local[i].messages, IsToolMessage)
                  IN  /\ msgs # <<>>
                      /\ \E opening \in SummaryOpenings :
                            obs[i].reply2_content = opening \o msgs[1].content
        /\ (pc[i] = "done" /\ arg[i].query = ListPayments)
            => /\ result[i].service_type = INQUIRY
               /\ Len(result[i].tool_results) = 1
               /\ result[i].success

C16_Witness ==
    /\ pc["a"] = "done"
    /\ arg["a"].query = ListPayments
    /\ arg["a"].mcp_client = "client_A"
    /\ obs["a"].llm_calls = 2
    /\ result["a"].tool_results[1].result = ClientPayload("client_A", "list_payments")
    /\ result["a"].response =
        "Found 0 payments in the system. Here are the details:\n\n"
            \o ClientPayload("client_A", "list_payments")

WhatIsTheWeather ==
    <<"w", "h", "a", "t", " ", "i", "s", " ", "t", "h", "e", " ", "w", "e", "a", "t", "h", "e", "r">>

\* C17: a run in which the offline backend requests no tool calls the LLM
\* exactly once, runs no tool, and returns tool_results = [] with success.
C17_NoToolRunIsOneCall ==
    \A i \in Inv :
        (pc[i] = "done" /\ ~UsedTools(i))
            => /\ obs[i].llm_calls = 1
               /\ obs[i].tools_run = <<>>
               /\ result[i].has_tool_results
               /\ result[i].tool_results = <<>>
               /\ result[i].success
               /\ result[i].response = local[i].response.content

C17_Witness ==
    /\ pc["a"] = "done"
    /\ arg["a"].query = WhatIsTheWeather
    /\ result["a"].service_type = GENERAL
    /\ result["a"].response = "Mock response to: what is the weather..."
    /\ obs["a"].llm_calls = 1

-----------------------------------------------------------------------------
(* Properties of a tool that cannot reach its server (specification Spec) *)

NotInitialized == json_dumps_error("Payment client not initialized")

-----------------------------------------------------------------------------
(* Properties of MCPClient's tool methods (specification SpecClient) *)

\* the dict is {"error": <description>}
IsErrorPayload(value) ==
    \E reply \in HttpReplies :
        value \in { json_dumps_error(reply.body),
                    json_dumps_error("Expecting value: line 1 column 1 (char 0)") }

\* C19: a tool method of MCPClient raises nothing, and it returns a payload
\* {"error": <description>} when the connection failed and when the server
\* answered with a status outside 200..299.
C19_ClientReturnsErrorPayload ==
    http.pc = "done"
        => /\ http.returned.kind = "return"
           /\ http.reply.kind = "raise" => IsErrorPayload(http.returned.value)
           /\ (http.reply.kind = "response" /\ http.reply.status \notin 200..299)
                => IsErrorPayload(http.returned.value)

-----------------------------------------------------------------------------
(* Properties of the message log (specification Spec) *)

\* C20: when the graph has ended without an exception, state["messages"]
\* reads system prompt, user query, then (in a run that used tools) the
\* assistant's tool request and tool-result messages only, and last the
\* assistant message whose content is the response.
C20_MessageLogEndsWithAnswer ==
    \A i \in Inv :
        (pc[i] = "graph_end" \/ (pc[i] = "done" /\ result[i].success))
            => LET m == state[i].messages
               IN  /\ Len(m) >= 3
                   /\ m[1].type = "system"
                   /\ m[2].type = "human"
                   /\ m[Len(m)].type = "ai"
                   /\ m[Len(m)].content = state[i].response
                   /\ IF UsedTools(i)
                      THEN /\ Len(m) >= 4
                           /\ m[3] = local[i].response
                           /\ \A n \in 4..(Len(m) - 1) : m[n].type = "tool"
                      ELSE Len(m) = 3

\* the payload is a dict with the key "error": of the payloads the agent
\* can hold, the ones that are not a body the server sent
HasErrorKey(payload) == payload \notin JSON_BODIES

\* the collaborator was called and no exception reached the except clause
CollaboratorReturned == agent.called # "" /\ agent.state.error = None

\* C27: when InfrastructureAgent.run ends after a recognised action, the
\* state has success = TRUE exactly when the collaborator call returned
\* without raising and its payload is no error payload; a payload without
\* the key "error" whose data holds the text 'error' gives success = TRUE.
C27_SuccessIffNoErrorPayload ==
    (agent.pc = "done" /\ agent.analysis.action \in AGENT_ACTIONS) =>
        (agent.state.success <=>
            (CollaboratorReturned /\ ~HasErrorKey(agent.state.result)))

\* C28: when InfrastructureAgent.run ends: with an empty action no tool call
\* is recorded, no collaborator is called, success is FALSE and error is
\* 'Could not determine action'; with another action exactly one tool call
\* is recorded; a set error means success = FALSE; success = TRUE means
\* error is unset and result is set.
C28_RunOutcomeIsConsistent ==
    agent.pc = "done" =>
        /\ NoAction(agent.analysis.action) =>
              /\ agent.state.tool_calls = <<>>
              /\ agent.called = ""
              /\ agent.state.success = FALSE
              /\ agent.state.error = "Could not determine action"
        /\ ~NoAction(agent.analysis.action) => Len(agent.state.tool_calls) = 1
        /\ agent.state.error # None => agent.state.success = FALSE
        /\ agent.state.success =>
              agent.state.error = None /\ agent.state.result # None

C28_Witness ==
    /\ agent.pc = "done"
    /\ agent.analysis.action = ""
    /\ agent.state.error = "Could not determine action"
    /\ agent.state.tool_calls = <<>>

\* the services that have a registered agent (orchestrator.py:23)
RegisteredAgents == {"infrastructure"}

\* the infrastructure agent failed: the LLM analysis gave no action, the
\* collaborator call raised or came back as an error
AgentFailed == agent.pc = "done" /\ ~agent.state.success

\* C21: route_request raises nothing to its caller; for a supplied or
\* detected category without a registered agent the response has status
\* 'error', and so has the response when the infrastructure agent or the LLM
\* failed.
C21_RouteNeverRaisesAndReportsError ==
    route.pc = "done" =>
        /\ ~route.raised
        /\ route.service \notin RegisteredAgents =>
              route.response.status = "error"
        /\ (route.service = "infrastructure" /\ AgentFailed) =>
              route.response.status = "error"

\* C22: every response of route_request, whatever the category, has a
\* status that is one of 'success', 'partial' and 'error'.
C22_StatusIsOneOfThree ==
    route.pc = "done" =>
        route.response.status \in {"success", "partial", "error"}

\* the documents that came from upload_document
Uploaded == DOMAIN docs.documents \cap FRESH_DOC_IDS

\* C23: a document that was uploaded and then went through any create_version,
\* update_document and delete_document calls has the version list 1..n
\* without gap or duplicate and a version field equal to n, the highest
\* number of the list; a create_version that just returned gave the number
\* (previous count + 1), which is the length of the list now (2 for the
\* first one).
C23_VersionsAreConsecutive ==
    /\ \A d \in Uploaded :
        /\ docs.versions[d] = [n \in 1..Len(docs.versions[d]) |-> n]
        /\ Len(docs.versions[d]) >= 1
        /\ docs.documents[d].version = Len(docs.versions[d])
    /\ (docs.ret.op = "create_version" /\ docs.ret.found) =>
        /\ docs.ret.number = Len(docs.versions[docs.ret.doc])
        /\ docs.ret.number >= 2
        /\ docs.versions[docs.ret.doc][docs.ret.number] = docs.ret.number

C23_Witness ==
    /\ docs.ret.op = "create_version"
    /\ docs.ret.doc \in Uploaded
    /\ docs.ret.number = 3
    /\ ~docs.documents[docs.ret.doc].is_active
    /\ docs.versions[docs.ret.doc] = <<1, 2, 3>>

\* the index table and the document table have the same index ids, and
\* every document_count is the number of documents stored for the index
TablesAgree ==
    /\ DOMAIN infra.indices = DOMAIN infra.documents
    /\ \A i \in DOMAIN infra.indices :
          infra.indices[i].document_count = Len(infra.documents[i])

\* a step in which index_document was called for an index the store does
\* not know
IndexDocumentOnUnknown ==
    /\ infra'.ret.op = "index_document"
    /\ infra'.ret.index \notin DOMAIN infra.indices

\* C30: after any sequence of create_index, delete_index, index_document and
\* delete_document calls the index table and the document table hold the
\* same index ids and every document_count is the number of documents
\* stored for its index; index_document on an unknown index returns None
\* and changes neither table.
C30_TablesAgreeAndUnknownIndexIsNoOp ==
    /\ []TablesAgree
    /\ [][IndexDocumentOnUnknown =>
            /\ ~infra'.ret.found
            /\ infra'.indices = infra.indices
            /\ infra'.documents = infra.documents]_vars

C30_Witness ==
    /\ infra.ret = [op |-> "index_document", index |-> "idx-1", found |-> FALSE]
    /\ "idx-1" \notin DOMAIN infra.indices
    /\ "idx-products" \in DOMAIN infra.indices
    /\ infra.indices["idx-products"].document_count = 4

\* the document's lower-cased content contains a lower-cased word of the
\* query, and its metadata has every key of the filters with the filter's
\* value
Qualifies(doc, query) ==
    /\ \E w \in {Split(Lower(query.query))[n] :
                    n \in 1..Len(Split(Lower(query.query)))} :
          SubstringIn(w, Lower(doc.content))
    /\ \A kv \in query.filters : kv \in doc.metadata

\* the documents of the searched index that qualify
Qualifying ==
    {n \in 1..Len(infra.documents["idx-1"]) :
        Qualifies(infra.documents["idx-1"][n], infra.ret.query)}

\* C24: a search on an existing index reports as total the number of its
\* documents whose lower-cased content contains a lower-cased query word and
\* that satisfy every metadata filter (a number that does not depend on
\* limit and offset); every result is such a document; the results are in
\* order of non-increasing score, and they are the at most `limit` entries
\* that start at `offset`.
C24_SearchTotalAndPage ==
    infra.ret.op = "search" =>
        LET out == infra.ret.out
            q == infra.ret.query
            left == IF out.total > q.offset THEN out.total - q.offset ELSE 0
        IN  /\ out.total = Cardinality(Qualifying)
            /\ \A n \in 1..Len(out.results) :
                  /\ out.results[n].doc_id \in Qualifying
                  /\ \A k \in 1..Len(out.results) :
                        k < n => out.results[k].score >= out.results[n].score
                  /\ \A k \in 1..Len(out.results) :
                        k # n => out.results[k].doc_id # out.results[n].doc_id
            /\ Len(out.results) = IF left < q.limit THEN left ELSE q.limit

\* a page of two results of different score, cut from three qualifying
\* documents of which one does not come first in the table
C24_Witness ==
    /\ infra.ret.op = "search"
    /\ infra.ret.out.total = 3
    /\ infra.ret.query.offset = 1
    /\ infra.ret.query.filters # {}
    /\ Len(infra.ret.out.results) = 2
    /\ infra.ret.out.results[1].score > infra.ret.out.results[2].score
    /\ infra.ret.out.results[1].doc_id > infra.ret.out.results[2].doc_id

\* C25: when the first LLM reply of inquiry_agent requested tools, the
\* tool_calls field of the workflow state at the end of the graph is the
\* list of the calls the LLM proposed, in order; the field is empty only
\* when no tools were requested.
C25_RequestedToolCallsRecorded ==
    \A i \in Inv :
        (pc[i] = "graph_end" /\ UsedTools(i)) =>
            /\ state[i].tool_calls = Calls(i)
            /\ state[i].tool_calls # <<>>

\* the tool-result messages of the log of invocation i, and the requested
\* calls that have a registered tool (the others get no message)
ToolMessagesOf(i) == SelectSeq(state[i].messages, IsToolMessage)
AnsweredCalls(i) == SelectSeq(Calls(i), LAMBDA c : tool_fn(c.name) # None)

\* no two entries of the list of ids are the same
PairwiseDistinct(ids) ==
    \A k, n \in 1..Len(ids) : k # n => ids[k] # ids[n]

Has(q, word) == ContainsWord(q, {word})

SearchTransactions == <<"s", "e", "a", "r", "c", "h", " ", "t", "r", "a", "n", "s", "a", "c", "t", "i", "o", "n", "s">>

\* C29: the tool MockLLM requests is get_payment_stats when the lower-cased
\* user message holds 'stats' or 'statistic', else list_transactions when it
\* holds 'transaction', else search_payments when it holds 'search' or
\* 'find', else list_payments; the name is always one of these four
\* registered tools, never search_transactions.
C29_MockToolPrecedence ==
    \A i \in Inv :
        (HasFirstReply(i) /\ Calls(i) # <<>>) =>
            LET q == arg[i].query
                name == Calls(i)[1].name
            IN  /\ Len(Calls(i)) = 1
                /\ name =
                     IF Has(q, <<"s", "t", "a", "t", "s">>) \/ Has(q, <<"s", "t", "a", "t", "i", "s", "t", "i", "c">>)
                     THEN "get_payment_stats"
                     ELSE IF Has(q, <<"t", "r", "a", "n", "s", "a", "c", "t", "i", "o", "n">>)
                     THEN "list_transactions"
                     ELSE IF Has(q, <<"s", "e", "a", "r", "c", "h">>) \/ Has(q, <<"f", "i", "n", "d">>)
                     THEN "search_payments"
                     ELSE "list_payments"
                /\ name \in {"get_payment_stats", "list_transactions",
                              "search_payments", "list_payments"}
                /\ tool_fn(name) # None
                /\ name # "search_transactions"

C29_Witness ==
    \E i \in Inv :
        /\ HasFirstReply(i)
        /\ arg[i].query = SearchTransactions
        /\ Calls(i) = <<[id |-> "mock_tool_call_1", name |-> "list_transactions",
                         args |-> "{\"limit\": 10}"]>>

====
